---- MODULE Spec2Model ----
(***************************************************************************)
(* The queue orchestrator (scripts/orchestrate_queue.py) and the worker    *)
(* supervisor (scripts/spawn_worker.py) as one state machine.              *)
(*                                                                         *)
(* The orchestrator is one sequential process: `pc` is its position in     *)
(* main()'s `while True` loop.  Every spawned supervisor is a concurrent    *)
(* process: sup[id] is its position in spawn_worker.main().  The two sides *)
(* share the run directory, the worktrees and the git repository.          *)
(***************************************************************************)
EXTENDS Integers, Sequences, FiniteSets, TLC

VARIABLES
    args,              \* the parsed command line (never changes)
    queue,             \* the queue file on disk: a sequence of task dicts
    session_log,       \* session_log.md beside the queue: whether it exists, its entries
    pc,                \* orchestrator position
    exit_code,         \* <<>> while main() runs, <<n>> once it returned n
    payload,           \* main(): the queue as last read (and patched) in memory
    runnable,          \* main(): the part of `runnable` the for loop has not visited
    running,           \* main(): ids of the dict `running`, in insertion order
    active_streams,    \* main(): the set `active_streams`
    spawned_any,       \* main(): the flag `spawned_any`
    checkq,            \* main(): the part of list(running.items()) not yet visited
    finished,          \* main(): the list `finished` (its unvisited part in the last loop)
    cur,               \* main(): the task the loop body at pc is working on
    commit_msg,        \* main(): the message of the docs commit about to be made
    task_to_worktree,  \* main(): dict task id -> worktree
    task_base_sha,     \* main(): dict task id -> sha
    planned,           \* the lines --dry-run printed (task ids)
    run_root,          \* whether the run root directory exists
    run,               \* the run directory <run_root>/<id>/ of every task
    wt_disk,           \* what is at each worktree path: "absent", "worktree", "plain"
    commits,           \* the git object store: a sequence of commits
    base_head,         \* tip of the base branch
    branches,          \* tip of each task branch (NoSha: no such branch)
    sup,               \* each supervisor process: its position and its locals
    faults,            \* how many supervisor runs have gone wrong so far
    hist               \* history: what the run has done (never read by the program)

vars == <<args, queue, session_log, pc, exit_code, payload, runnable, running, active_streams,
          spawned_any, checkq, finished, cur, commit_msg, task_to_worktree,
          task_base_sha, planned, run_root, run, wt_disk, commits, base_head, branches,
          sup, faults, hist>>

orch_locals == <<payload, runnable, running, active_streams, spawned_any, checkq,
                 finished, cur, commit_msg, task_to_worktree, task_base_sha, planned>>

-----------------------------------------------------------------------------
(* Small helpers on sequences.                                             *)

Range(s) == {s[i] : i \in 1..Len(s)}

SeqFilter(s, keep) == SelectSeq(s, LAMBDA x : x \in keep)

RemoveFirst(s, x) ==
    IF \E i \in 1..Len(s) : s[i] = x
    THEN LET i == CHOOSE j \in 1..Len(s) : s[j] = x /\ \A k \in 1..(j-1) : s[k] # x
         IN  SubSeq(s, 1, i-1) \o SubSeq(s, i+1, Len(s))
    ELSE s

-----------------------------------------------------------------------------
(* Strings.  TLC has no string functions, so str.lower()/str.upper() and   *)
(* Path.name are tables over the strings the model uses.                   *)

Lower(s) ==
    CASE s = "Done" -> "done"
      [] s = "TODO" -> "todo"
      [] s = "Integration" -> "integration"
      [] s = "N/A" -> "n/a"
      [] OTHER -> s

Upper(s) ==
    CASE s = "n/a" -> "N/A"
      [] OTHER -> s

WorktreePaths == {"wt/A", "wt/B", "wt/C"}

\* Path(worktree).name
PathName(p) ==
    CASE p = "wt/A" -> "A"
      [] p = "wt/B" -> "B"
      [] p = "wt/C" -> "C"
      [] OTHER -> p

BranchNames == {PathName(p) : p \in WorktreePaths}

\* `t.worktree and t.worktree.strip().upper() != "N/A"`
UsesWorktree(w) == w # "" /\ Upper(w) # "N/A"

NoSha == 0

-----------------------------------------------------------------------------
(* Queue store and scheduler: the pure functions of orchestrate_queue.py.  *)

\* _normalize_status(s): s.strip().lower(), then the synonym table.
_normalize_status(s) ==
    LET v == Lower(s)
    IN  IF v \in {"todo", "pending"} THEN "pending"
        ELSE IF v \in {"in_progress", "in-progress"} THEN "in_progress"
        ELSE IF v \in {"done", "completed", "complete"} THEN "completed"
        ELSE IF v \in {"blocked"} THEN "blocked"
        ELSE IF v \in {"deferred"} THEN "deferred"
        ELSE IF v # "" THEN v ELSE "pending"

\* _derive_workstream_id(t)
_derive_workstream_id(t) ==
    IF t.workstream_id # "" THEN t.workstream_id
    ELSE LET typ == Lower(t.type)
         IN  IF typ = "code" THEN "WS-CODE"
             ELSE IF typ = "test" THEN "WS-TEST"
             ELSE IF typ = "integration" THEN "WS-INT"
             ELSE "WS-DEFAULT"

\* The Task dataclass built by _load_tasks for the dict at 1-based position i
\* (the source's idx is i - 1, so (idx + 1) * 10 is i * 10).
LoadTask(t, i) ==
    [id            |-> t.id,
     index         |-> i - 1,
     order         |-> IF t.order # <<>> THEN t.order[1] ELSE i * 10,
     status        |-> _normalize_status(IF t.status # "" THEN t.status ELSE "pending"),
     depends_on    |-> SeqFilter(t.depends_on, {d \in Range(t.depends_on) : d # ""}),
     type          |-> t.type,
     worktree      |-> t.worktree,
     workstream_id |-> _derive_workstream_id(t)]

\* _queue_tasks(payload): the list of task dicts, of an array and of an object
\* with a 'tasks' key alike (the queues of the model hold dicts only)
_queue_tasks(p) == p.tasks

\* _load_tasks(payload): dicts without an id are skipped.
RECURSIVE LoadFrom(_, _)
LoadFrom(ts, i) ==
    IF i > Len(ts) THEN <<>>
    ELSE IF ts[i].id = "" THEN LoadFrom(ts, i + 1)
    ELSE <<LoadTask(ts[i], i)>> \o LoadFrom(ts, i + 1)

_load_tasks(p) == LoadFrom(_queue_tasks(p), 1)

\* sorted(runnable, key=lambda x: x.order): Python's sort is stable, so a task
\* goes after every task already placed whose order is <= its own.
RECURSIVE InsertByOrder(_, _)
InsertByOrder(s, x) ==
    IF s = <<>> THEN <<x>>
    ELSE IF Head(s).order <= x.order THEN <<Head(s)>> \o InsertByOrder(Tail(s), x)
    ELSE <<x>> \o s

\* Faulty variant of SortedByOrder: the list is left in queue order.
Unsorted(s) == s

RECURSIVE SortedByOrder(_)
SortedByOrder(s) ==
    IF s = <<>> THEN <<>>
    ELSE InsertByOrder(SortedByOrder(SubSeq(s, 1, Len(s) - 1)), s[Len(s)])

\* Faulty variant of PendingReady: the status test is left out, so a task
\* that is no longer pending counts as ready once its dependencies are done.
ReadyIgnoringStatus(tasks, done) ==
    SeqFilter(tasks, {t \in Range(tasks) : \A i \in 1..Len(t.depends_on) : t.depends_on[i] \in done})

\* Faulty variant of PendingReady: the dependency test is left out.
ReadyIgnoringDeps(tasks, done) ==
    SeqFilter(tasks, {t \in Range(tasks) : t.status = "pending"})

\* _runnable_tasks, lines 218-223: the loop that keeps the pending tasks whose
\* dependencies are all done
PendingReady(tasks, done) ==
    SelectSeq(tasks, LAMBDA t : /\ t.status = "pending"
                                /\ \A i \in 1..Len(t.depends_on) : t.depends_on[i] \in done)

\* _runnable_tasks(tasks, done)
_runnable_tasks(tasks, done) == SortedByOrder(PendingReady(tasks, done))

\* _active_workstreams(payload)
_active_workstreams(p) ==
    LET ts == _queue_tasks(p)
    IN  {_derive_workstream_id(ts[i]) :
            i \in {j \in 1..Len(ts) : _normalize_status(ts[j].status) = "in_progress"}}

\* Faulty variant of Patch: the keys the orchestrator does not know are lost.
PatchKnownOnly(t, updates) ==
    [f \in DOMAIN t |-> IF f \in DOMAIN updates THEN updates[f]
                        ELSE IF f = "notes" THEN "" ELSE t[f]]

\* dict.update(updates) on one task dict
Patch(t, updates) == [f \in DOMAIN t |-> IF f \in DOMAIN updates THEN updates[f] ELSE t[f]]

HasTask(p, task_id) == \E i \in 1..Len(_queue_tasks(p)) : _queue_tasks(p)[i].id = task_id

\* _update_task(payload, task_id, updates): the first dict with that id is patched.
\* (With no such dict the source raises KeyError; the callers below only name
\* ids read from the queue, so that branch is the identity here.)
_update_task(p, task_id, updates) ==
    IF HasTask(p, task_id)
    THEN LET ts == _queue_tasks(p)
             i == CHOOSE j \in 1..Len(ts) : ts[j].id = task_id /\ \A k \in 1..(j-1) : ts[k].id # task_id
         IN  [p EXCEPT !.tasks[i] = Patch(@, updates)]
    ELSE p

\* _utc_now(): the model keeps no clock; a stamped field holds this value.
Now == "now"

\* main(), lines 423-428: the scope filters.
InScope(a, id) ==
    /\ (a.only_ids = {} \/ id \in a.only_ids)
    /\ (~a.id_regex.on \/ id \in a.id_regex.ids)

ScopedTasks(a, p) ==
    LET all == _load_tasks(p)
    IN  SeqFilter(all, {t \in Range(all) : InScope(a, t.id)})

\* Faulty variant of DoneIds: a blocked dependency counts as done.
SettledIds(p) ==
    {t.id : t \in {u \in Range(_load_tasks(p)) : u.status \in {"completed", "blocked"}}}

\* main(), line 430
DoneIds(p) == {t.id : t \in {u \in Range(_load_tasks(p)) : u.status = "completed"}}

\* main(), line 431: the id regex is not applied here.
BlockedTasks(a, p) ==
    {t \in Range(_load_tasks(p)) : t.status = "blocked" /\ (a.only_ids = {} \/ t.id \in a.only_ids)}

\* main(), line 436
Runnable(a, p) == _runnable_tasks(ScopedTasks(a, p), DoneIds(p))

TaskOf(p, task_id) ==
    LET all == _load_tasks(p)
    IN  CHOOSE t \in Range(all) : t.id = task_id

StatusOf(p, task_id) == TaskOf(p, task_id).status

-----------------------------------------------------------------------------
(* Git: commits are numbered 1..Len(commits); each has a parent (NoSha for *)
(* the root), a message and the queue file as committed in its tree.       *)

RECURSIVE IsAncestor(_, _, _)
\* a is b or an ancestor of b
IsAncestor(cs, a, b) ==
    IF b = NoSha THEN FALSE
    ELSE IF a = b THEN TRUE
    ELSE IsAncestor(cs, a, cs[b].parent)

HeadQueue == commits[base_head].q

HeadLog == commits[base_head].log

\* _append_session_log, behind the callers' `if session_log.exists()`
\* (lines 490, 620, 654, 686, 700): an entry is its heading.
_append_session_log(entry) ==
    session_log' = IF session_log.exists
                   THEN [session_log EXCEPT !.entries = Append(@, entry)]
                   ELSE session_log

_session_log_start(task_id) == _append_session_log(<<"START", task_id>>)

_session_log_end(task_id) == _append_session_log(<<"END", task_id>>)

\* `git rev-parse <branch>` with check=False: empty output for an unknown branch
RevParse(br) == IF br \in DOMAIN branches THEN branches[br] ELSE NoSha

-----------------------------------------------------------------------------
(* The orchestrator: main() of orchestrate_queue.py, one action per step.  *)

Exited == exit_code # <<>>

Return(n) == pc' = "exit" /\ exit_code' = <<n>>

\* Faulty variant of MakesRunRoot: the run root is made in a dry run too.
MakesRunRootAlways == TRUE

\* lines 400-401: run_root.mkdir only `if not args.dry_run`
MakesRunRoot == ~args.dry_run

\* main(), lines 395-418: run_root.mkdir and the spawn-helper check.
Startup ==
    /\ pc = "start"
    /\ run_root' = (run_root \/ MakesRunRoot)
    /\ IF ~args.dry_run /\ ~args.has_spawn_script
       THEN Return(2)
       ELSE pc' = "top" /\ UNCHANGED exit_code
    /\ UNCHANGED <<args, queue, session_log, orch_locals, run, wt_disk, commits, base_head,
                   branches, sup, faults, hist>>

\* What every step at the top of a tick does first (lines 421-436): read the
\* queue; the history keeps the snapshot and forgets the last tick's admissions.
ReadQueueAtTop ==
    /\ pc = "top"
    /\ payload' = queue
    /\ hist' = [hist EXCEPT !.snapshot = queue, !.tick_admitted = {}]

\* Faulty variant of StopTripped: the flag is not looked at.
StopWithoutFlag == BlockedTasks(args, queue) # {}

StopTripped == BlockedTasks(args, queue) # {} /\ args.stop_on_blocked

\* lines 431-434
TickStopOnBlocked ==
    /\ ReadQueueAtTop
    /\ StopTripped
    /\ Return(1)
    /\ UNCHANGED <<args, queue, session_log, runnable, running, active_streams, spawned_any, checkq,
                   finished, cur, commit_msg, task_to_worktree, task_base_sha, planned,
                   run_root, run, wt_disk, commits, base_head, branches, sup, faults>>

\* Faulty variant of Plan: the workstreams already in progress are not looked at.
RECURSIVE PlanOnFreeStreams(_, _, _)
PlanOnFreeStreams(rest, acc, streams) ==
    IF rest = <<>> THEN acc
    ELSE IF Len(acc) >= args.max_workers THEN acc
    ELSE PlanOnFreeStreams(Tail(rest), Append(acc, Head(rest).id), streams)

\* lines 440-449: the dry-run admission plan
RECURSIVE Plan(_, _, _)
Plan(rest, acc, streams) ==
    IF rest = <<>> THEN acc
    ELSE IF Len(acc) >= args.max_workers THEN acc
    ELSE IF args.per_workstream > 0 /\ Head(rest).workstream_id \in streams
         THEN Plan(Tail(rest), acc, streams)
    ELSE Plan(Tail(rest), Append(acc, Head(rest).id), streams \cup {Head(rest).workstream_id})

\* lines 440-458
TickDryRun ==
    /\ ReadQueueAtTop
    /\ ~StopTripped
    /\ args.dry_run
    /\ planned' = Plan(Runnable(args, queue), <<>>, _active_workstreams(queue))
    /\ Return(0)
    /\ UNCHANGED <<args, queue, session_log, runnable, running, active_streams, spawned_any, checkq,
                   finished, cur, commit_msg, task_to_worktree, task_base_sha,
                   run_root, run, wt_disk, commits, base_head, branches, sup, faults>>

\* Faulty variant of Drained: the workers still running are forgotten.
DrainedIgnoringRunning == Runnable(args, queue) = <<>>

\* line 460: `not runnable and not running`
Drained == Runnable(args, queue) = <<>> /\ running = <<>>

\* lines 460-462
TickExitDone ==
    /\ ReadQueueAtTop
    /\ ~StopTripped
    /\ ~args.dry_run
    /\ Drained
    /\ Return(0)
    /\ UNCHANGED <<args, queue, session_log, runnable, running, active_streams, spawned_any, checkq,
                   finished, cur, commit_msg, task_to_worktree, task_base_sha, planned,
                   run_root, run, wt_disk, commits, base_head, branches, sup, faults>>

\* lines 464-467: enter the admission loop
TickStart ==
    /\ ReadQueueAtTop
    /\ ~StopTripped
    /\ ~args.dry_run
    /\ ~Drained
    /\ runnable' = Runnable(args, queue)
    /\ active_streams' = _active_workstreams(queue)
    /\ spawned_any' = FALSE
    /\ pc' = "admit"
    /\ UNCHANGED <<args, queue, session_log, exit_code, running, checkq, finished, cur, commit_msg,
                   task_to_worktree, task_base_sha, planned, run_root, run, wt_disk,
                   commits, base_head, branches, sup, faults>>

\* The three tests at the head of the loop body, lines 468-473, in their order.
AlreadyRunning(t) == t.id \in Range(running)

\* Faulty variant of WorkersFull: off by one.
WorkersFullOffByOne == Len(running) > args.max_workers

WorkersFull == Len(running) >= args.max_workers

\* Faulty variant of StreamBusy: the workstream gate never closes.
StreamNeverBusy(t) == FALSE

StreamBusy(t) == args.per_workstream > 0 /\ t.workstream_id \in active_streams

\* `for t in runnable` is exhausted
AdmitEnd ==
    /\ pc = "admit" /\ runnable = <<>>
    /\ pc' = "watch"
    /\ UNCHANGED <<args, queue, session_log, exit_code, payload, runnable, running, active_streams,
                   spawned_any, checkq, finished, cur, commit_msg, task_to_worktree,
                   task_base_sha, planned, run_root, run, wt_disk, commits, base_head,
                   branches, sup, faults, hist>>

\* lines 468-469 and 472-473: `continue`
AdmitSkip ==
    /\ pc = "admit" /\ runnable # <<>>
    /\ AlreadyRunning(Head(runnable)) \/ (~WorkersFull /\ StreamBusy(Head(runnable)))
    /\ runnable' = Tail(runnable)
    /\ UNCHANGED <<args, queue, session_log, pc, exit_code, payload, running, active_streams,
                   spawned_any, checkq, finished, cur, commit_msg, task_to_worktree,
                   task_base_sha, planned, run_root, run, wt_disk, commits, base_head,
                   branches, sup, faults, hist>>

\* lines 470-471: `break`
AdmitBreak ==
    /\ pc = "admit" /\ runnable # <<>>
    /\ ~AlreadyRunning(Head(runnable)) /\ WorkersFull
    /\ runnable' = <<>>
    /\ pc' = "watch"
    /\ UNCHANGED <<args, queue, session_log, exit_code, payload, running, active_streams,
                   spawned_any, checkq, finished, cur, commit_msg, task_to_worktree,
                   task_base_sha, planned, run_root, run, wt_disk, commits, base_head,
                   branches, sup, faults, hist>>

MayAdmit(t) == ~AlreadyRunning(t) /\ ~WorkersFull /\ ~StreamBusy(t)

\* Faulty variant of StaleDoneUnlinked: the old sentinel is left where it is.
StaleDoneKept(rd) == rd

\* Faulty variant of StaleDoneUnlinked: the whole run directory is emptied.
RunDirEmptied(rd) ==
    [prompt |-> FALSE, done |-> <<>>, failure |-> <<>>, base_sha |-> 0, pid |-> FALSE, log |-> 0]

\* lines 480-482: the run directory is made if it is not there, and a DONE
\* sentinel an earlier run left in it is deleted
StaleDoneUnlinked(rd) == [rd EXCEPT !.done = <<>>]

\* lines 475-499: make the run directory, drop a stale sentinel, flip the task to
\* in_progress in memory and write the queue file.
AdmitFlip ==
    /\ pc = "admit" /\ runnable # <<>>
    /\ LET t == Head(runnable)
       IN  /\ MayAdmit(t)
           /\ run' = [run EXCEPT ![t.id] = StaleDoneUnlinked(@)]
           /\ payload' = _update_task(payload, t.id, [status |-> "in_progress", started_at |-> Now])
           /\ _session_log_start(t.id)
           /\ queue' = payload'
           /\ cur' = t.id
           /\ hist' = [hist EXCEPT !.admitted = @ \cup {t.id}, !.tick_admitted = @ \cup {t.id}]
    /\ pc' = "admit_commit"
    /\ UNCHANGED <<args, exit_code, runnable, running, active_streams, spawned_any,
                   checkq, finished, commit_msg, task_to_worktree, task_base_sha, planned,
                   run_root, wt_disk, commits, base_head, branches, sup, faults>>

\* Faulty variant of _git_has_changes: only the session log is looked at.
LogHasChanges == session_log.entries # HeadLog

\* _git_has_changes after `git add -- <queue> <session log>`
_git_has_changes == queue # HeadQueue \/ session_log.entries # HeadLog

\* _git_commit_paths(repo_root, track_paths, message): no commit when nothing changed
_git_commit_paths(message) ==
    IF _git_has_changes
    THEN /\ commits' = Append(commits, [parent |-> base_head, msg |-> message, q |-> queue,
                                        log |-> session_log.entries])
         /\ base_head' = Len(commits) + 1
    ELSE UNCHANGED <<commits, base_head>>

\* lines 500-501
AdmitCommit ==
    /\ pc = "admit_commit"
    /\ _git_commit_paths("docs: start " \o cur)
    /\ pc' = "admit_spawn"
    /\ UNCHANGED <<args, queue, session_log, exit_code, orch_locals, run_root, run, wt_disk, branches,
                   sup, faults, hist>>

\* Faulty variant of EnsureRaises: a directory that is no worktree is taken as one.
EnsureNeverRaises(w) == FALSE

\* _ensure_worktree raises: the path exists and holds no .git entry (line 314)
EnsureRaises(w) == wt_disk[w] = "plain"

\* The tip of the task branch once _ensure_worktree returned: an existing
\* worktree and an existing branch are taken as they are (lines 311-320); else
\* `git worktree add -b <branch> <path> <base_branch>` starts the branch at the
\* tip of the base branch (line 322).
BranchIsNew(w) == wt_disk[w] = "absent" /\ RevParse(PathName(w)) = NoSha

\* Faulty variant of BranchAfterEnsure: a new branch starts one commit behind
\* the tip of the base branch, as if the worktree were made before the
\* docs-start commit.
BranchBehindBase(w) ==
    IF BranchIsNew(w)
    THEN commits[base_head].parent
    ELSE RevParse(PathName(w))

BranchAfterEnsure(w) ==
    IF BranchIsNew(w)
    THEN base_head
    ELSE RevParse(PathName(w))

\* Faulty variant of Spawned: the supervisor starts past the deletion of the
\* old sentinel.
SpawnedPastUnlink(repo_root) ==
    [pc |-> "unlinked", repo_root |-> repo_root, exit_code |-> 0, status |-> "", error |-> "",
     rc |-> <<>>]

\* A supervisor process as it starts: spawn_worker.main() at its first line,
\* with the locals of lines 80-82 not yet set.  repo_root is its --repo-root
\* argument: a worktree path, or "" for the repository root itself.
Spawned(repo_root) ==
    [pc |-> "spawned", repo_root |-> repo_root, exit_code |-> 0, status |-> "", error |-> "",
     rc |-> <<>>]

\* lines 505-547: worktree, base sha, prompt, Popen
AdmitSpawn ==
    /\ pc = "admit_spawn"
    /\ LET t == Head(runnable)
           w == t.worktree
       IN  /\ IF UsesWorktree(w)
              THEN /\ ~EnsureRaises(w)
                   /\ wt_disk' = [wt_disk EXCEPT ![w] = "worktree"]
                   /\ branches' = [branches EXCEPT ![PathName(w)] = BranchAfterEnsure(w)]
                   /\ task_to_worktree' = [task_to_worktree EXCEPT ![t.id] = w]
                   /\ task_base_sha' = [task_base_sha EXCEPT ![t.id] = BranchAfterEnsure(w)]
                   /\ run' = [run EXCEPT ![t.id].base_sha = BranchAfterEnsure(w),
                                         ![t.id].prompt = TRUE]
              ELSE /\ run' = [run EXCEPT ![t.id].prompt = TRUE]
                   /\ UNCHANGED <<wt_disk, branches, task_to_worktree, task_base_sha>>
           /\ running' = Append(running, t.id)
           /\ active_streams' = active_streams \cup {t.workstream_id}
           /\ sup' = [sup EXCEPT ![t.id] = Spawned(IF UsesWorktree(w) THEN w ELSE "")]
           /\ hist' = [hist EXCEPT !.spawned = @ \cup {t.id},
                                    !.fresh = IF UsesWorktree(w) /\ BranchIsNew(w)
                                              THEN @ \cup {t.id} ELSE @]
    /\ spawned_any' = TRUE
    /\ runnable' = Tail(runnable)
    /\ pc' = "admit"
    /\ UNCHANGED <<args, queue, session_log, exit_code, payload, checkq, finished, cur, commit_msg,
                   planned, run_root, commits, base_head, faults>>

\* line 314: the RuntimeError is caught nowhere, so main() ends with a traceback
\* (exit status 1) between the docs-start commit and the spawn.
AdmitCrash ==
    /\ pc = "admit_spawn"
    /\ UsesWorktree(Head(runnable).worktree) /\ EnsureRaises(Head(runnable).worktree)
    /\ Return(1)
    /\ hist' = [hist EXCEPT !.crashed = TRUE]
    /\ UNCHANGED <<args, queue, session_log, orch_locals, run_root, run, wt_disk, commits, base_head,
                   branches, sup, faults>>

\* lines 549-553: _file_watch_once blocks until something changes under the run
\* root or the timeout expires, then the completion loop starts.
WatchWait ==
    /\ pc = "watch"
    /\ ~spawned_any /\ running # <<>>
    /\ pc' = "check"
    /\ checkq' = running
    /\ UNCHANGED <<args, queue, session_log, exit_code, payload, runnable, running, active_streams,
                   spawned_any, finished, cur, commit_msg, task_to_worktree,
                   task_base_sha, planned, run_root, run, wt_disk, commits, base_head,
                   branches, sup, faults, hist>>

\* line 549 false: no wait
WatchSkip ==
    /\ pc = "watch"
    /\ ~(~spawned_any /\ running # <<>>)
    /\ pc' = "check"
    /\ checkq' = running
    /\ UNCHANGED <<args, queue, session_log, exit_code, payload, runnable, running, active_streams,
                   spawned_any, finished, cur, commit_msg, task_to_worktree,
                   task_base_sha, planned, run_root, run, wt_disk, commits, base_head,
                   branches, sup, faults, hist>>

DoneExists(id) == run[id].done # <<>>

\* Faulty variant of ProcExited: a supervisor that ended is taken as running.
ProcStillRunning(id) == FALSE

\* proc.poll() is not None
ProcExited(id) == sup[id].pc = "exited"

\* lines 559-561: the first look at the sentinel
CheckSentinel ==
    /\ pc = "check" /\ checkq # <<>>
    /\ IF DoneExists(Head(checkq))
       THEN /\ finished' = Append(finished, Head(checkq))
            /\ checkq' = Tail(checkq)
            /\ pc' = "check"
       ELSE /\ pc' = "poll"
            /\ UNCHANGED <<finished, checkq>>
    /\ UNCHANGED <<args, queue, session_log, exit_code, payload, runnable, running, active_streams,
                   spawned_any, cur, commit_msg, task_to_worktree, task_base_sha,
                   planned, run_root, run, wt_disk, commits, base_head, branches, sup,
                   faults, hist>>

\* line 563, left operand: proc.poll()
PollProc ==
    /\ pc = "poll"
    /\ IF ProcExited(Head(checkq))
       THEN pc' = "recheck" /\ UNCHANGED checkq
       ELSE pc' = "check" /\ checkq' = Tail(checkq)
    /\ UNCHANGED <<args, queue, session_log, exit_code, payload, runnable, running, active_streams,
                   spawned_any, finished, cur, commit_msg, task_to_worktree,
                   task_base_sha, planned, run_root, run, wt_disk, commits, base_head,
                   branches, sup, faults, hist>>

\* Faulty variant of StillNoSentinel: the exit of the process is taken as
\* proof that no sentinel was written, without a second look.
NotRechecked(id) == TRUE

\* line 563, right operand: `not done_path.exists()`, evaluated after proc.poll()
StillNoSentinel(id) == ~DoneExists(id)

\* line 563, right operand false: the sentinel turned up after the first look
RecheckFound ==
    /\ pc = "recheck"
    /\ ~StillNoSentinel(Head(checkq))
    /\ pc' = "check"
    /\ checkq' = Tail(checkq)
    /\ UNCHANGED <<args, queue, session_log, exit_code, payload, runnable, running, active_streams,
                   spawned_any, finished, cur, commit_msg, task_to_worktree,
                   task_base_sha, planned, run_root, run, wt_disk, commits, base_head,
                   branches, sup, faults, hist>>

\* _tail_lines(path, n): the log is its line count, its tail the numbers of
\* the lines kept.
_tail_lines(len, n) == {i \in 1..len : i > len - n}

TailLines == 200

LogPath(id) == ".runs/" \o id \o "/worker.log"
FailurePath(id) == ".runs/" \o id \o "/failure.md"
DonePath(id) == ".runs/" \o id \o "/" \o id \o ".done"
LastMessagePath(id) == ".runs/" \o id \o "/last_message.md"

NoSentinelBlocker == "Worker exited without writing DONE sentinel."

\* Faulty variant of NoSentinelPatch: the task is put back to pending.
NoSentinelRetry(id) == [status |-> "pending", started_at |-> ""]

\* lines 573-578
NoSentinelPatch(id) ==
    [status        |-> "blocked",
     blocked_at    |-> Now,
     blockers      |-> <<NoSentinelBlocker>>,
     unblock_steps |-> <<"Inspect " \o LogPath(id), "Inspect " \o FailurePath(id),
                         "Re-run task with revised prompt.">>]

\* lines 563-581: the supervisor is gone and left no sentinel
NoSentinel ==
    /\ pc = "recheck"
    /\ StillNoSentinel(Head(checkq))
    /\ LET id == Head(checkq)
       IN  /\ run' = [run EXCEPT ![id].failure = <<_tail_lines(run[id].log, TailLines)>>]
           /\ payload' = _update_task(queue, id, NoSentinelPatch(id))
           /\ queue' = payload'
           /\ finished' = Append(finished, id)
           /\ hist' = [hist EXCEPT !.no_sentinel = @ \cup {id}]
    /\ checkq' = Tail(checkq)
    /\ pc' = "check"
    /\ UNCHANGED <<args, session_log, exit_code, runnable, running, active_streams,
                   spawned_any, cur, commit_msg, task_to_worktree, task_base_sha, planned, run_root,
                   wt_disk, commits, base_head, branches, sup, faults>>

\* the completion loop is exhausted
CheckEnd ==
    /\ pc = "check" /\ checkq = <<>>
    /\ pc' = "finish"
    /\ UNCHANGED <<args, queue, session_log, exit_code, payload, runnable, running, active_streams,
                   spawned_any, checkq, finished, cur, commit_msg, task_to_worktree,
                   task_base_sha, planned, run_root, run, wt_disk, commits, base_head,
                   branches, sup, faults, hist>>

-----------------------------------------------------------------------------
(* The classification loop, lines 583-714.                                 *)

\* lines 593-598 and 607: the sentinel's status, "" without a sentinel
DoneStatus(id) == IF DoneExists(id) THEN Lower(run[id].done[1].status) ELSE ""

\* lines 604-605: `wt` ("" in task_to_worktree stands for a missing key)
FinWt(id) ==
    LET w == IF task_to_worktree[id] # "" THEN task_to_worktree[id] ELSE TaskOf(queue, id).worktree
    IN  IF UsesWorktree(w) THEN w ELSE ""

\* line 636 (NoSha in task_base_sha stands for a missing key)
BaseShaOf(id) == IF task_base_sha[id] # NoSha THEN task_base_sha[id] ELSE run[id].base_sha

\* Faulty variant of NoCommitOnBranch: the tip is not compared with the base sha.
BranchMissing(id) == RevParse(PathName(FinWt(id))) = NoSha

\* line 638: `not branch_sha or branch_sha == base_sha`
NoCommitOnBranch(id) ==
    LET branch_sha == RevParse(PathName(FinWt(id)))
    IN  branch_sha = NoSha \/ branch_sha = BaseShaOf(id)

\* Faulty variant of FFMergePossible: a failed merge goes unnoticed.
FFMergeUnchecked(br) == TRUE

\* _fast_forward_merge: `git merge --ff-only` succeeds when the base tip is an
\* ancestor of the branch tip (the base moves) or the branch is already merged
\* (nothing moves), and fails when the two have diverged.
FFMergePossible(br) ==
    /\ RevParse(br) # NoSha
    /\ IsAncestor(commits, base_head, RevParse(br)) \/ IsAncestor(commits, RevParse(br), base_head)

BaseAfterMerge(br) == IF IsAncestor(commits, base_head, RevParse(br)) THEN RevParse(br) ELSE base_head

IsIntegration(id) == Lower(TaskOf(queue, id).type) = "integration"

\* Faulty variant of Classify: the sentinel alone decides.
ClassifyBySentinel(id) == IF DoneStatus(id) # "success" THEN "blocked_status" ELSE "completed"

\* The branch of lines 607-714 a finished task takes.
Classify(id) ==
    IF DoneStatus(id) # "success" THEN "blocked_status"
    ELSE IF FinWt(id) # "" /\ NoCommitOnBranch(id) THEN "blocked_no_commit"
    ELSE IF IsIntegration(id) /\ FinWt(id) # "" /\ ~FFMergePossible(PathName(FinWt(id)))
         THEN "blocked_merge"
    ELSE "completed"

BaseBranch == "main"

\* Faulty variant of StatusBlocker: the status is never named.
StatusBlockerUnknown(id) == "Worker status=unknown (see .runs)."

StatusBlocker(id) ==
    "Worker status=" \o (IF DoneStatus(id) # "" THEN DoneStatus(id) ELSE "unknown") \o " (see .runs)."

NoCommitBlocker(id) ==
    "No commit produced on branch '" \o PathName(FinWt(id)) \o "' (likely commit failed)."

\* Faulty variant of MergeBlocker: the failed merge is reported as a missing commit.
MergeReportedAsNoCommit(id) == NoCommitBlocker(id)

MergeBlocker(id) ==
    "Failed ff-merge " \o PathName(FinWt(id)) \o " into " \o BaseBranch \o ": rc=128"

\* Faulty variant of FinishPatch: the status is left as it was.
StampOnly(id) == [blocked_at |-> Now]

\* the `updates` dicts of lines 612-617, 642-651, 678-683 and 699
FinishPatch(id) ==
    CASE Classify(id) = "blocked_status" ->
           [status |-> "blocked", blocked_at |-> Now,
            blockers |-> <<StatusBlocker(id)>>,
            unblock_steps |-> <<"Inspect " \o LogPath(id), "Inspect " \o DonePath(id),
                                "Adjust prompt and rerun.">>]
      [] Classify(id) = "blocked_no_commit" ->
           [status |-> "blocked", blocked_at |-> Now,
            blockers |-> <<NoCommitBlocker(id)>>,
            unblock_steps |-> <<"Inspect " \o LastMessagePath(id), "Inspect " \o LogPath(id),
                                "Re-run the task with a less-restrictive codex sandbox.">>]
      [] Classify(id) = "blocked_merge" ->
           [status |-> "blocked", blocked_at |-> Now,
            blockers |-> <<MergeBlocker(id)>>,
            unblock_steps |-> <<"Inspect git history",
                                "Resolve merge/rebase, then rerun integration task.">>]
      [] OTHER -> [status |-> "completed", completed_at |-> Now]

\* Faulty variant of FinishMessage: the suffix is never written.
FinishMessagePlain(id) == "docs: finish " \o id

FinishMessage(id) ==
    IF Classify(id) = "completed" THEN "docs: finish " \o id
    ELSE "docs: finish " \o id \o " (blocked)"

\* line 584-586: the Popen handle is popped and dropped.  By then the process
\* has written its sentinel or has ended, so nothing it still does is seen by
\* anyone, and the model stops following it.
Dropped ==
    [pc |-> "dropped", repo_root |-> "", exit_code |-> 0, status |-> "", error |-> "",
     rc |-> <<>>]

\* lines 583-709 for one finished task, up to and including the queue write:
\* pop it from `running`, read the sentinel and the queue, classify, merge an
\* integration branch, patch and write the queue.
FinishTask(kind) ==
    /\ pc = "finish" /\ finished # <<>>
    /\ LET id == Head(finished)
       IN  /\ Classify(id) = kind
           /\ running' = RemoveFirst(running, id)
           /\ payload' = _update_task(queue, id, FinishPatch(id))
           /\ _session_log_end(id)
           /\ queue' = payload'
           /\ base_head' = IF kind = "completed" /\ IsIntegration(id) /\ FinWt(id) # ""
                           THEN BaseAfterMerge(PathName(FinWt(id)))
                           ELSE base_head
           /\ commit_msg' = FinishMessage(id)
           /\ cur' = id
           /\ sup' = [sup EXCEPT ![id] = Dropped]
           /\ hist' = [hist EXCEPT !.outcome[id] = kind, !.seen_done[id] = DoneExists(id),
                                    !.merged[id] = IF kind = "completed" /\ IsIntegration(id)
                                                      /\ FinWt(id) # ""
                                                   THEN <<base_head, base_head'>>
                                                   ELSE <<>>]
    /\ finished' = Tail(finished)
    /\ pc' = IF kind = "completed" THEN "fin_commit_done" ELSE "fin_commit_blocked"
    /\ UNCHANGED <<args, exit_code, runnable, active_streams, spawned_any, checkq,
                   task_to_worktree, task_base_sha, planned, run_root, run, wt_disk,
                   commits, branches, faults>>

FinishBlockedStatus == FinishTask("blocked_status")
FinishBlockedNoCommit == FinishTask("blocked_no_commit")
FinishBlockedMerge == FinishTask("blocked_merge")
FinishCompleted == FinishTask("completed")

\* lines 629, 663, 695: the docs commit of a blocked task; its worktree stays
FinishCommitBlocked ==
    /\ pc = "fin_commit_blocked"
    /\ _git_commit_paths(commit_msg)
    /\ pc' = "finish"
    /\ UNCHANGED <<args, queue, session_log, exit_code, orch_locals, run_root, run, wt_disk, branches,
                   sup, faults, hist>>

\* line 710
FinishCommitCompleted ==
    /\ pc = "fin_commit_done"
    /\ _git_commit_paths(commit_msg)
    /\ pc' = "fin_remove"
    /\ UNCHANGED <<args, queue, session_log, exit_code, orch_locals, run_root, run, wt_disk, branches,
                   sup, faults, hist>>

\* Faulty variant of _remove_worktree: the worktree is left where it is.
KeepWorktree(w) == UNCHANGED wt_disk

\* _remove_worktree: `git worktree remove --force` with check=False
_remove_worktree(w) ==
    wt_disk' = [wt_disk EXCEPT ![w] = IF @ = "worktree" THEN "absent" ELSE @]

\* lines 712-714
FinishRemove ==
    /\ pc = "fin_remove"
    /\ IF FinWt(cur) # "" THEN _remove_worktree(FinWt(cur)) ELSE UNCHANGED wt_disk
    /\ pc' = "finish"
    /\ UNCHANGED <<args, queue, session_log, exit_code, orch_locals, run_root, run, commits, base_head,
                   branches, sup, faults, hist>>

\* The locals every tick assigns before it reads them hold nothing the next
\* tick can see; the model clears them when the tick ends.
DeadLocalsReset ==
    /\ payload' = <<>>
    /\ runnable' = <<>>
    /\ active_streams' = {}
    /\ spawned_any' = FALSE
    /\ checkq' = <<>>
    /\ finished' = <<>>
    /\ cur' = ""
    /\ commit_msg' = ""

\* the classification loop is exhausted: the tick ends, `while True` goes round
FinishEnd ==
    /\ pc = "finish" /\ finished = <<>>
    /\ pc' = "top"
    /\ hist' = [hist EXCEPT !.ticks = TRUE]
    /\ DeadLocalsReset
    /\ UNCHANGED <<args, queue, session_log, exit_code, running, task_to_worktree, task_base_sha,
                   planned, run_root, run, wt_disk, commits, base_head, branches, sup,
                   faults>>

-----------------------------------------------------------------------------
(* The supervisor: main() of spawn_worker.py, one process per spawned task. *)

\* Faulty variant of SupRepoRootExists: the repo root is taken to be there.
RepoRootAssumed(id) == TRUE

\* line 66, `repo_root.exists()`: the repository root itself is always there
SupRepoRootExists(id) ==
    sup[id].repo_root = "" \/ wt_disk[sup[id].repo_root] # "absent"

Sentinel(id, status, code, error) ==
    <<[status |-> status, task_id |-> id, exit_code |-> code, error |-> error]>>

\* lines 56-58: make the run directory and drop an old sentinel
SupStart(id) ==
    /\ sup[id].pc = "spawned"
    /\ run_root' = TRUE
    /\ run' = [run EXCEPT ![id].done = <<>>]
    /\ sup' = [sup EXCEPT ![id].pc = "unlinked"]
    /\ UNCHANGED <<args, queue, session_log, pc, exit_code, orch_locals, wt_disk, commits,
                   base_head, branches, faults, hist>>

\* line 60: write worker.pid
SupWritePid(id) ==
    /\ sup[id].pc = "unlinked"
    /\ run' = [run EXCEPT ![id].pid = TRUE]
    /\ sup' = [sup EXCEPT ![id].pc = "pid_written"]
    /\ UNCHANGED <<args, queue, session_log, pc, exit_code, orch_locals, run_root, wt_disk,
                   commits, base_head, branches, faults, hist>>

\* lines 62-82: check the prompt and the repo root (a failed check writes the
\* sentinel and returns 2), set the locals and launch the child
SupLaunch(id) ==
    /\ sup[id].pc = "pid_written"
    /\ IF ~run[id].prompt
       THEN /\ run' = [run EXCEPT ![id].done = Sentinel(id, "failed", <<>>, "missing_prompt")]
            /\ sup' = [sup EXCEPT ![id].pc = "wrote", ![id].rc = <<2>>]
       ELSE IF ~SupRepoRootExists(id)
       THEN /\ run' = [run EXCEPT ![id].done = Sentinel(id, "failed", <<>>, "missing_repo")]
            /\ sup' = [sup EXCEPT ![id].pc = "wrote", ![id].rc = <<2>>]
       ELSE /\ run' = run
            /\ sup' = [sup EXCEPT ![id].pc = "child", ![id].exit_code = 0,
                                  ![id].status = "success", ![id].error = ""]
    /\ UNCHANGED <<args, queue, session_log, pc, exit_code, orch_locals, run_root, wt_disk,
                   commits, base_head, branches, faults, hist>>

WorkerCommits(id) == {i \in 1..Len(commits) : commits[i].msg = "work: " \o id}

\* The sub-agent commits on the task branch in its worktree; it leaves the
\* queue file alone (the hard rules of the prompt, lines 353-362).  One commit
\* stands for all the commits of one sub-agent: the orchestrator only compares
\* the tip of the branch with the base sha and with the base branch.
WorkerCommit(id) ==
    /\ sup[id].pc = "child"
    /\ sup[id].repo_root # "" /\ wt_disk[sup[id].repo_root] = "worktree"
    /\ WorkerCommits(id) = {}
    /\ LET br == PathName(sup[id].repo_root)
       IN  /\ RevParse(br) # NoSha
           /\ commits' = Append(commits, [parent |-> branches[br], msg |-> "work: " \o id,
                                          q |-> commits[branches[br]].q,
                                          log |-> commits[branches[br]].log])
           /\ branches' = [branches EXCEPT ![br] = Len(commits) + 1]
    /\ UNCHANGED <<args, queue, session_log, pc, exit_code, orch_locals, run_root, run, wt_disk,
                   base_head, sup, faults, hist>>

ChildExitCodes == {0, 1}

\* At most MaxFaults supervisor runs of one orchestrator run go wrong: a child
\* that exits non-zero or cannot be launched, a child that exits 0 without a
\* commit on its task branch, a supervisor that is killed.
MaxFaults == 1

MayFail == faults < MaxFaults

\* whether the child of task id, exiting with `code`, counts as gone wrong
ChildFault(id, code) ==
    \/ code # 0
    \/ sup[id].repo_root # "" /\ WorkerCommits(id) = {}

\* lines 85-95: subprocess.run returned
ChildExit(id) ==
    /\ sup[id].pc = "child"
    /\ \E code \in ChildExitCodes :
         /\ ChildFault(id, code) => MayFail
         /\ faults' = IF ChildFault(id, code) THEN faults + 1 ELSE faults
         /\ sup' = [sup EXCEPT ![id].pc = "child_exited",
                               ![id].exit_code = code,
                               ![id].status = IF code # 0 THEN "failed" ELSE "success",
                               ![id].error = IF code # 0 THEN "nonzero_exit" ELSE ""]
         /\ hist' = [hist EXCEPT !.child[id] = IF code = 0 THEN "exited 0" ELSE "exited nonzero"]
    /\ run' = [run EXCEPT ![id].log = TailLines + 1]
    /\ UNCHANGED <<args, queue, session_log, pc, exit_code, orch_locals, run_root, wt_disk,
                   commits, base_head, branches>>

\* lines 96-99: opening the log or launching the child raised
ChildException(id) ==
    /\ sup[id].pc = "child"
    /\ MayFail
    /\ faults' = faults + 1
    /\ sup' = [sup EXCEPT ![id].pc = "child_exited", ![id].exit_code = 1,
                          ![id].status = "failed", ![id].error = "exception:OSError"]
    /\ hist' = [hist EXCEPT !.child[id] = "exception"]
    /\ UNCHANGED <<args, queue, session_log, pc, exit_code, orch_locals, run_root, run, wt_disk,
                   commits, base_head, branches>>

\* lines 101-113: write the sentinel; the return value is set with it
SupWriteDone(id) ==
    /\ sup[id].pc = "child_exited"
    /\ run' = [run EXCEPT ![id].done =
                 Sentinel(id, sup[id].status, <<sup[id].exit_code>>, sup[id].error)]
    /\ sup' = [sup EXCEPT ![id].pc = "wrote",
                          ![id].rc = IF sup[id].status = "success" THEN <<0>> ELSE <<1>>]
    /\ UNCHANGED <<args, queue, session_log, pc, exit_code, orch_locals, run_root, wt_disk, commits,
                   base_head, branches, faults, hist>>

\* A process that has ended: only its exit status is left of it.
Gone(rc) ==
    [pc |-> "exited", repo_root |-> "", exit_code |-> 0, status |-> "", error |-> "", rc |-> rc]

\* the process ends after its last write
SupExit(id) ==
    /\ sup[id].pc = "wrote"
    /\ sup' = [sup EXCEPT ![id] = Gone(sup[id].rc)]
    /\ UNCHANGED <<args, queue, session_log, pc, exit_code, orch_locals, run_root, run, wt_disk,
                   commits, base_head, branches, faults, hist>>

\* The supervisor is killed (a signal, the machine going down) before it wrote
\* its sentinel.  worker.log is what the child had written by then: nothing
\* before the child was launched, more than the tail keeps afterwards.
SupKilled(id) ==
    /\ sup[id].pc \in {"spawned", "unlinked", "pid_written", "child", "child_exited"}
    /\ MayFail \/ sup[id].status = "failed"
    /\ faults' = IF sup[id].status = "failed" THEN faults ELSE faults + 1
    /\ sup' = [sup EXCEPT ![id] = Gone(<<-9>>)]
    /\ run' = [run EXCEPT ![id].log = IF sup[id].pc = "child" THEN TailLines + 1 ELSE @]
    /\ hist' = [hist EXCEPT !.child[id] = ""]
    /\ UNCHANGED <<args, queue, session_log, pc, exit_code, orch_locals, run_root, wt_disk, commits,
                   base_head, branches>>

-----------------------------------------------------------------------------
(* Initial states: the command line and the queue file the run starts on.  *)

Ids == {"A", "B", "C"}

\* A task dict of the queue file.  `notes` stands for the keys the orchestrator
\* does not know; "" and <<>> stand for a missing key.
TaskDict(id, order, status, deps, type, worktree, ws) ==
    [id |-> id, order |-> order, status |-> status, depends_on |-> deps, type |-> type,
     worktree |-> worktree, workstream_id |-> ws, started_at |-> "", completed_at |-> "",
     blocked_at |-> "", blockers |-> <<>>, unblock_steps |-> <<>>, notes |-> "notes of " \o id]

\* The queue file as json.loads returns it: an array of task dicts, or an
\* object whose 'tasks' key holds the array beside its other keys.
Array(tasks) == [form |-> "array", tasks |-> tasks, other |-> ""]

Object(tasks, other) == [form |-> "object", tasks |-> tasks, other |-> other]

\* scenario 1 of the spec: the linear chain A <- B <- C, each in its worktree
QueueChain ==
    Array(<<TaskDict("A", <<10>>, "pending", <<>>, "code", "wt/A", ""),
            TaskDict("B", <<20>>, "todo", <<"A">>, "test", "wt/B", ""),
            TaskDict("C", <<30>>, "", <<"B">>, "Integration", "wt/C", "")>>)

\* scenario 2 of the spec, with an integration task beside it: A and B share
\* WS-CODE and run in the repository root, C is alone in WS-INT.  All three
\* have order 10 (A by default, (0 + 1) * 10), so the stable sort keeps A, B, C.
QueueThrottle ==
    Array(<<TaskDict("A", <<>>, "pending", <<>>, "code", "N/A", ""),
            TaskDict("B", <<10>>, "TODO", <<>>, "code", "", ""),
            TaskDict("C", <<10>>, "pending", <<>>, "integration", "wt/C", "")>>)

\* a two-task cycle A <-> B beside a free task C
QueueCycle ==
    Array(<<TaskDict("A", <<>>, "pending", <<"B">>, "code", "wt/A", ""),
            TaskDict("B", <<>>, "pending", <<"A">>, "test", "wt/B", ""),
            TaskDict("C", <<>>, "pending", <<>>, "other", "n/a", "")>>)

\* a cycle one member of which the queue already records as done, a
\* self-dependency, and a dependency that names no task
QueueCycleDone ==
    Array(<<TaskDict("A", <<>>, "pending", <<"B">>, "code", "wt/A", ""),
            TaskDict("B", <<>>, "Done", <<"A">>, "test", "wt/B", ""),
            TaskDict("C", <<>>, "pending", <<"C", "Z">>, "code", "wt/C", "")>>)

\* a queue an earlier, interrupted run left behind: A is in_progress and has
\* no supervisor; B is in A's workstream, C is deferred
QueueStale ==
    Array(<<TaskDict("A", <<>>, "in-progress", <<>>, "code", "wt/A", ""),
            TaskDict("B", <<>>, "pending", <<>>, "test", "wt/B", "WS-CODE"),
            TaskDict("C", <<>>, "deferred", <<>>, "code", "wt/C", "WS-X")>>)

\* A is blocked, B waits for it, C is free and sorts first
QueueBlocked ==
    Array(<<TaskDict("A", <<>>, "blocked", <<>>, "code", "wt/A", ""),
            TaskDict("B", <<>>, "pending", <<"A">>, "code", "wt/B", ""),
            TaskDict("C", <<5>>, "pending", <<>>, "integration", "wt/C", "")>>)

\* an integration task that runs in the repository root, and what waits for
\* it; the file is an object, and its first entry has no id
QueueRootIntegration ==
    Object(<<TaskDict("", <<>>, "pending", <<>>, "", "", ""),
             TaskDict("A", <<10>>, "pending", <<>>, "integration", "N/A", ""),
             TaskDict("B", <<20>>, "pending", <<"A">>, "code", "wt/B", ""),
             TaskDict("C", <<30>>, "deferred", <<>>, "code", "", "")>>,
           "version 1")

\* nothing left to run: what an earlier run leaves when it drained the queue
QueueSettled ==
    Array(<<TaskDict("A", <<10>>, "completed", <<>>, "code", "wt/A", ""),
            TaskDict("B", <<20>>, "Done", <<"A">>, "test", "N/A", ""),
            TaskDict("C", <<30>>, "deferred", <<>>, "code", "", "")>>)

\* three tasks ready at once, in three workstreams; B sorts first
QueueParallel ==
    Array(<<TaskDict("A", <<>>, "pending", <<>>, "integration", "wt/A", ""),
            TaskDict("B", <<5>>, "pending", <<>>, "code", "wt/B", ""),
            TaskDict("C", <<>>, "pending", <<>>, "code", "N/A", "WS-X")>>)

NoRegex == [on |-> FALSE, ids |-> {}]

MaxWorkersBound == 2

MaxPerWorkstream == 1

\* the command lines of a real run with no scope filter
ArgsPlain ==
    [max_workers : 1..MaxWorkersBound, per_workstream : 0..MaxPerWorkstream,
     stop_on_blocked : BOOLEAN, dry_run : {FALSE}, only_ids : {{}}, id_regex : {NoRegex},
     has_spawn_script : {TRUE}]

\* --only-task-ids / --id-regex
ArgsScoped ==
    [max_workers : {MaxWorkersBound}, per_workstream : {MaxPerWorkstream},
     stop_on_blocked : BOOLEAN, dry_run : {FALSE},
     only_ids : {{}, {"B", "C"}},
     id_regex : {NoRegex, [on |-> TRUE, ids |-> {"A", "C"}]} \ {NoRegex},
     has_spawn_script : {TRUE}]
    \cup
    [max_workers : {MaxWorkersBound}, per_workstream : {MaxPerWorkstream},
     stop_on_blocked : BOOLEAN, dry_run : {FALSE}, only_ids : {{"B", "C"}},
     id_regex : {NoRegex}, has_spawn_script : {TRUE}]

\* scenario 3 of the spec: --max-workers 2 --per-workstream 1
ArgsTwoWorkers ==
    [max_workers |-> 2, per_workstream |-> 1, stop_on_blocked |-> FALSE, dry_run |-> FALSE,
     only_ids |-> {}, id_regex |-> NoRegex, has_spawn_script |-> TRUE]

\* --id-regex alone, matching B and C, with and without --stop-on-blocked
ArgsRegexOnly ==
    {[ArgsTwoWorkers EXCEPT !.id_regex = [on |-> TRUE, ids |-> {"B", "C"}],
                            !.stop_on_blocked = b] : b \in BOOLEAN}

\* --dry-run, and a real run without the spawn helper
ArgsDry ==
    [max_workers : 1..MaxWorkersBound, per_workstream : 0..MaxPerWorkstream,
     stop_on_blocked : BOOLEAN, dry_run : {TRUE}, only_ids : {{}, {"B", "C"}},
     id_regex : {NoRegex, [on |-> TRUE, ids |-> {"A", "C"}]}, has_spawn_script : BOOLEAN]
    \cup
    [max_workers : {1}, per_workstream : {1}, stop_on_blocked : {FALSE}, dry_run : {FALSE},
     only_ids : {{}}, id_regex : {NoRegex}, has_spawn_script : {FALSE}]

NoWorktrees == [w \in WorktreePaths |-> "absent"]
NoBranches == [b \in BranchNames |-> NoSha]

NoProcess ==
    [pc |-> "none", repo_root |-> "", exit_code |-> 0, status |-> "", error |-> "", rc |-> <<>>]

EmptyRunDir ==
    [prompt |-> FALSE, done |-> <<>>, failure |-> <<>>, base_sha |-> NoSha, pid |-> FALSE,
     log |-> 0]

NoRunDirs == [id \in Ids |-> EmptyRunDir]

Config(q, a) ==
    [queue |-> q, args |-> a, has_log |-> TRUE, wt_disk |-> NoWorktrees, branches |-> NoBranches,
     run_root |-> FALSE, run |-> NoRunDirs, sup |-> [id \in Ids |-> NoProcess]]

\* the same repository without a session_log.md beside the queue
WithoutLog(c) == [c EXCEPT !.has_log = FALSE]

SequentialQueues == {QueueChain, QueueCycle, QueueCycleDone, QueueStale, QueueBlocked}

AllQueues ==
    SequentialQueues \cup {QueueThrottle, QueueParallel, QueueRootIntegration, QueueSettled}

\* The run directory of a task whose earlier run failed and that was put back
\* to pending: the files of both scripts, the sentinel among them.
FailedRunDir(id) ==
    [prompt |-> TRUE, done |-> Sentinel(id, "failed", <<1>>, "nonzero_exit"), failure |-> <<>>,
     base_sha |-> 1, pid |-> TRUE, log |-> TailLines + 1]

\* What an earlier run can leave at wt/A: a directory that is no worktree, or
\* the worktree and its branch, the branch behind the base branch, with the
\* run directory of that run.
LeftBehind ==
    {[Config(QueueChain, a) EXCEPT !.wt_disk["wt/A"] = d.dir, !.branches["A"] = d.tip,
                                    !.run_root = d.run # EmptyRunDir, !.run["A"] = d.run] :
        a \in {x \in ArgsPlain : x.max_workers = 1 /\ x.per_workstream = 1 /\ ~x.stop_on_blocked},
        d \in {[dir |-> "plain", tip |-> NoSha, run |-> EmptyRunDir],
               [dir |-> "worktree", tip |-> 1, run |-> FailedRunDir("A")],
               [dir |-> "absent", tip |-> 1, run |-> EmptyRunDir]}}

\* spawn_worker.py started by hand for task A of a drained queue, beside the
\* sentinel its earlier run left: in the repository root or in wt/A, with or
\* without the prompt file, wt/A being there or not.
HandLaunches ==
    [root : {"", "wt/A"}, prompt : BOOLEAN, dir : {"absent"}, tip : {NoSha}]
    \cup {[root |-> "wt/A", prompt |-> TRUE, dir |-> "worktree", tip |-> 2]}

ByHand ==
    {[Config(QueueSettled, ArgsTwoWorkers) EXCEPT
         !.run_root = TRUE,
         !.run["A"].done = Sentinel("A", "success", <<0>>, ""),
         !.run["A"].prompt = h.prompt,
         !.sup["A"] = Spawned(h.root),
         !.wt_disk["wt/A"] = h.dir,
         !.branches["A"] = h.tip] : h \in HandLaunches}

Configs ==
    {Config(q, a) : q \in SequentialQueues, a \in ArgsPlain}
    \cup {Config(QueueThrottle, a) : a \in {x \in ArgsPlain : ~x.stop_on_blocked}}
    \cup {Config(QueueParallel, ArgsTwoWorkers), Config(QueueRootIntegration, ArgsTwoWorkers)}
    \cup {Config(q, a) : q \in {QueueChain, QueueBlocked}, a \in ArgsScoped}
    \cup {Config(QueueBlocked, a) : a \in ArgsRegexOnly}
    \cup {Config(q, a) : q \in AllQueues, a \in ArgsDry}
    \cup {WithoutLog(Config(QueueBlocked, a)) : a \in ArgsPlain}
    \cup LeftBehind
    \cup ByHand

\* The repository a run starts on: two commits on the base branch, the queue
\* file committed as it is on disk.
InitialCommits(q) ==
    <<[parent |-> NoSha, msg |-> "init", q |-> q, log |-> <<>>],
      [parent |-> 1, msg |-> "docs: plan", q |-> q, log |-> <<>>]>>

InitFrom(configs) ==
    /\ \E c \in configs :
         /\ args = c.args
         /\ queue = c.queue
         /\ session_log = [exists |-> c.has_log, entries |-> <<>>]
         /\ wt_disk = c.wt_disk
         /\ branches = c.branches
         /\ commits = InitialCommits(c.queue)
         /\ hist = [init |-> c.queue, snapshot |-> <<>>, admitted |-> {},
                    tick_admitted |-> {}, spawned |-> {}, crashed |-> FALSE,
                    no_sentinel |-> {}, ticks |-> FALSE,
                    outcome |-> [id \in Ids |-> ""], seen_done |-> [id \in Ids |-> FALSE],
                    child |-> [id \in Ids |-> ""], fresh |-> {},
                    merged |-> [id \in Ids |-> <<>>]]
         /\ run_root = c.run_root
         /\ run = c.run
         /\ sup = c.sup
    /\ base_head = 2
    /\ pc = "start"
    /\ exit_code = <<>>
    /\ payload = <<>>
    /\ runnable = <<>>
    /\ running = <<>>
    /\ active_streams = {}
    /\ spawned_any = FALSE
    /\ checkq = <<>>
    /\ finished = <<>>
    /\ cur = ""
    /\ commit_msg = ""
    /\ task_to_worktree = [id \in Ids |-> ""]
    /\ task_base_sha = [id \in Ids |-> NoSha]
    /\ planned = <<>>
    /\ faults = 0

Init == InitFrom(Configs)

Orchestrator ==
    \/ Startup
    \/ TickStopOnBlocked
    \/ TickDryRun
    \/ TickExitDone
    \/ TickStart
    \/ AdmitEnd
    \/ AdmitSkip
    \/ AdmitBreak
    \/ AdmitFlip
    \/ AdmitCommit
    \/ AdmitSpawn
    \/ AdmitCrash
    \/ WatchWait
    \/ WatchSkip
    \/ CheckSentinel
    \/ PollProc
    \/ RecheckFound
    \/ NoSentinel
    \/ CheckEnd
    \/ FinishBlockedStatus
    \/ FinishBlockedNoCommit
    \/ FinishBlockedMerge
    \/ FinishCompleted
    \/ FinishCommitBlocked
    \/ FinishCommitCompleted
    \/ FinishRemove
    \/ FinishEnd

Supervisor(id) ==
    \/ SupStart(id)
    \/ SupWritePid(id)
    \/ SupLaunch(id)
    \/ WorkerCommit(id)
    \/ ChildExit(id)
    \/ ChildException(id)
    \/ SupWriteDone(id)
    \/ SupExit(id)
    \/ SupKilled(id)

Next ==
    \/ Orchestrator
    \/ \E id \in Ids : Supervisor(id)

Spec == Init /\ [][Next]_vars

-----------------------------------------------------------------------------
(* Properties.  They read the queue file, the run directories, the git     *)
(* store and the history directly, not through the scheduler's functions.  *)

\* the dict of task id in the queue file p
Rec(p, id) == p.tasks[CHOOSE i \in 1..Len(p.tasks) : p.tasks[i].id = id]

\* the status of task id as a reader of the queue file p sees it
Persisted(p, id) == _normalize_status(Rec(p, id).status)

\* every dependency of id names a task of p whose status is completed
DepsCompleted(p, id) ==
    \A k \in 1..Len(Rec(p, id).depends_on) :
        \E j \in 1..Len(p.tasks) :
            /\ p.tasks[j].id = Rec(p, id).depends_on[k]
            /\ _normalize_status(p.tasks[j].status) = "completed"

ReadyIn(p, id) == Persisted(p, id) = "pending" /\ DepsCompleted(p, id)

\* this step flips task id to in_progress
Flipped(id) == Persisted(queue, id) # "in_progress" /\ Persisted(queue, id)' = "in_progress"

\* no in-scope task is pending with all its dependencies completed
NoneReady == \A id \in Ids : ~(InScope(args, id) /\ ReadyIn(queue, id))

\* C1: once the persisted status of a task is completed, no step of the
\* orchestrator or of a supervisor changes it.
C1_CompletedIsTerminal ==
    [][\A id \in Ids :
          Persisted(queue, id) = "completed" => Persisted(queue, id)' = "completed"]_vars

\* A was completed by this run and stayed so while B was admitted and classified.
C1_Witness ==
    /\ hist.outcome["A"] = "completed" /\ Persisted(queue, "A") = "completed"
    /\ hist.outcome["B"] # ""

\* C2: a task is flipped to in_progress only if the queue as read at the top
\* of the tick holds it pending with every dependency completed somewhere in
\* the whole queue; and at the top of a tick every in-scope pending task
\* with no dependency is in the list the admission loop walks.
C2_AdmittedOnlyIfReady ==
    [][/\ \A id \in Ids : Flipped(id) => ReadyIn(hist.snapshot, id)
       /\ (pc = "top" /\ pc' = "admit") =>
             \A id \in Ids :
                (InScope(args, id) /\ Persisted(queue, id) = "pending"
                   /\ Rec(queue, id).depends_on = <<>>)
                => \E i \in 1..Len(runnable') : runnable'[i].id = id]_vars

\* B, which depends on A, was admitted, after A was completed.
C2_Witness ==
    /\ Rec(hist.init, "B").depends_on = <<"A">> /\ Persisted(hist.init, "A") = "pending"
    /\ "B" \in hist.admitted

\* C3: the orchestrator never tracks more than max_workers supervisors, every
\* tracked id is a process it started, and it is below the cap whenever it
\* has flipped a task and is about to spawn its supervisor.
C3_RunningWithinMaxWorkers ==
    /\ Len(running) <= args.max_workers
    /\ pc \in {"admit_commit", "admit_spawn"} => Len(running) < args.max_workers
    /\ \A i \in 1..Len(running) : sup[running[i]].pc \notin {"none", "dropped"}

\* The cap is reached with a further ready task waiting.
C3_Witness ==
    /\ pc = "admit" /\ runnable # <<>>
    /\ Head(runnable).id \notin Range(running)
    /\ Len(running) = args.max_workers /\ args.max_workers = MaxWorkersBound

SameStream(p, i, j) == _derive_workstream_id(Rec(p, i)) = _derive_workstream_id(Rec(p, j))

OneInProgressPerStream(p) ==
    \A i, j \in Ids :
        (i # j /\ Persisted(p, i) = "in_progress" /\ Persisted(p, j) = "in_progress")
        => ~SameStream(p, i, j)

\* C4: with per_workstream > 0 no two tasks of one workstream are in_progress
\* together (in the queue the run starts on, and after every step that writes
\* the queue), and a task is flipped only while no other task of its
\* workstream is in_progress; with per_workstream = 0 the admission loop
\* admits the task it looks at whenever that task is not running and the cap
\* is not reached.
C4_WorkstreamGate ==
    [][/\ (args.per_workstream > 0 /\ pc = "start") => OneInProgressPerStream(queue)
       /\ (args.per_workstream > 0 /\ queue' # queue) =>
             /\ OneInProgressPerStream(queue)'
             /\ \A id \in Ids : Flipped(id) =>
                   \A j \in Ids \ {id} :
                       Persisted(queue, j) = "in_progress" => ~SameStream(queue, id, j)
       /\ (/\ pc = "admit" /\ args.per_workstream = 0
           /\ runnable # <<>>
           /\ Head(runnable).id \notin Range(running)
           /\ Len(running) < args.max_workers
           /\ (pc' # pc \/ runnable' # runnable))
          => Flipped(Head(runnable).id)]_vars

\* With the gate on, B is in_progress after A, of the same workstream, was classified.
C4_Witness ==
    /\ args.per_workstream > 0
    /\ SameStream(hist.init, "A", "B")
    /\ hist.outcome["A"] # "" /\ Persisted(queue, "B") = "in_progress"

\* With the gate off, A and B of one workstream were admitted in one tick.
C4_GateOffReached ==
    /\ args.per_workstream = 0
    /\ SameStream(hist.init, "A", "B")
    /\ {"A", "B"} \subseteq hist.tick_admitted

NoCommitText(br) == "No commit produced on branch '" \o br \o "' (likely commit failed)."

SupLive(id) ==
    sup[id].pc \in {"spawned", "unlinked", "pid_written", "child", "child_exited", "wrote"}

\* C6 as the spec states it: when a tick has ended, every task persisted as
\* in_progress has a live supervisor or was admitted in that tick.
C6_Original ==
    (pc = "top" /\ hist.ticks) =>
        \A id \in Ids :
            Persisted(queue, id) = "in_progress" => (SupLive(id) \/ id \in hist.tick_admitted)

\* C6, amended: when a tick has ended, every task persisted as in_progress
\* that was not in_progress already in the queue the run started on is
\* tracked in `running` with the supervisor process spawned for it; that
\* process may have ended since the tick last looked at it.
C6_InProgressIsTracked ==
    pc = "top" =>
        \A id \in Ids :
            (Persisted(queue, id) = "in_progress" /\ Persisted(hist.init, id) # "in_progress")
            => (id \in Range(running) /\ sup[id].pc \notin {"none", "dropped"})

\* A tick ended with a task in_progress whose supervisor had ended meanwhile.
C6_Witness ==
    /\ pc = "top" /\ hist.ticks
    /\ \E id \in Ids :
          /\ Persisted(queue, id) = "in_progress" /\ id \in hist.admitted
          /\ id \notin hist.tick_admitted
          /\ sup[id].pc = "exited"

\* C7 as the spec states it: when a tick has ended, every task whose
\* supervisor the orchestrator saw gone with no sentinel is blocked with the
\* one blocker "Worker exited without writing DONE sentinel.", and failure.md
\* holds the last 200 lines of worker.log.
C7_NoSentinelBlocker ==
    pc = "top" =>
        \A id \in hist.no_sentinel :
            /\ Persisted(queue, id) = "blocked"
            /\ Rec(queue, id).blockers = <<"Worker exited without writing DONE sentinel.">>
            /\ run[id].failure = <<{i \in 1..run[id].log : i > run[id].log - 200}>>

\* C8: a task handled by the no-sentinel path has no sentinel, and was
\* handled when its process had ended and no sentinel was there; a task
\* classified while its sentinel exists was classified with the sentinel
\* seen, blocked for its status exactly when that status is not success.
C8_SentinelDecides ==
    [][/\ \A id \in hist.no_sentinel' : run[id].done' = <<>>
       /\ \A id \in hist.no_sentinel' \ hist.no_sentinel :
             run[id].done = <<>> /\ sup[id].pc = "exited"
       /\ \A id \in Ids :
             (hist.outcome[id]' # "" /\ run[id].done' # <<>>)
             => /\ hist.seen_done[id]'
                /\ hist.outcome[id]' = "blocked_status" <=> run[id].done[1].status' # "success"]_vars

\* The orchestrator saw the process gone after it had looked for the sentinel
\* in vain, and the sentinel is there now.
C8_Witness ==
    /\ pc = "recheck"
    /\ run[Head(checkq)].done # <<>>
    /\ sup[Head(checkq)].pc = "exited"

\* --stop-on-blocked with a blocked task in the --only-task-ids scope
StopOnBlockedTrips ==
    /\ args.stop_on_blocked
    /\ \E id \in Ids :
          Persisted(queue, id) = "blocked" /\ (args.only_ids = {} \/ id \in args.only_ids)

\* C9 as the spec states it: in a real run main() returns 0 only at the top
\* of a tick with nothing ready in scope and nothing running, and at every
\* such tick it returns 0.
C9_Original ==
    [][~args.dry_run =>
          /\ (exit_code = <<>> /\ exit_code' = <<0>>)
             => (pc = "top" /\ NoneReady /\ running = <<>>)
          /\ (pc = "top" /\ NoneReady /\ running = <<>> /\ pc' # pc)
             => exit_code' = <<0>>]_vars

\* C9, amended: in a real run main() returns 0 only at the top of a tick with
\* nothing ready in scope and nothing running, and at every such tick it
\* returns 0 unless --stop-on-blocked finds a blocked task, when it returns 1.
C9_ExitZeroWhenDrained ==
    [][~args.dry_run =>
          /\ (exit_code = <<>> /\ exit_code' = <<0>>)
             => (pc = "top" /\ NoneReady /\ running = <<>>)
          /\ (pc = "top" /\ NoneReady /\ running = <<>> /\ pc' # pc)
             => exit_code' = (IF StopOnBlockedTrips THEN <<1>> ELSE <<0>>)]_vars

\* A real run worked, and returned 0 with a task still pending.
C9_Witness ==
    /\ ~args.dry_run /\ exit_code = <<0>> /\ hist.ticks
    /\ \E id \in Ids : Persisted(queue, id) = "pending"

DependsOn(p, i, j) == \E k \in 1..Len(Rec(p, i).depends_on) : Rec(p, i).depends_on[k] = j

\* j is reached from i along depends_on in 1..n steps
RECURSIVE Reaches(_, _, _, _)
Reaches(p, i, j, n) ==
    IF n = 0 THEN FALSE
    ELSE DependsOn(p, i, j) \/ \E m \in Ids : DependsOn(p, i, m) /\ Reaches(p, m, j, n - 1)

OnCycle(p, id) == Reaches(p, id, id, Cardinality(Ids))

\* the tasks on a cycle through id
CycleOf(p, id) ==
    {j \in Ids : Reaches(p, id, j, Cardinality(Ids)) /\ Reaches(p, j, id, Cardinality(Ids))}

\* C10 as the spec states it: no task on a depends_on cycle of the queue is
\* ever admitted, and the tick that starts with nothing running and nothing
\* ready ends the run.
C10_Original ==
    [][/\ \A id \in Ids : OnCycle(hist.init, id) => ~Flipped(id)
       /\ (pc = "top" /\ running = <<>> /\ NoneReady /\ pc' # pc) => pc' = "exit"]_vars

\* C10, amended: no task on a depends_on cycle is ever admitted if no task
\* of its cycles is completed in the queue the run starts on, and the tick
\* that starts with nothing running and nothing ready ends the run.
C10_CycleNeverAdmitted ==
    [][/\ \A id \in Ids :
             (/\ OnCycle(hist.init, id)
              /\ \A j \in CycleOf(hist.init, id) : Persisted(hist.init, j) # "completed")
             => ~Flipped(id)
       /\ (pc = "top" /\ running = <<>> /\ NoneReady /\ pc' # pc) => pc' = "exit"]_vars

\* The run ended with the free task done and the two tasks of the cycle pending.
C10_Witness ==
    /\ exit_code = <<0>>
    /\ OnCycle(hist.init, "A") /\ "B" \in CycleOf(hist.init, "A")
    /\ Persisted(queue, "A") = "pending" /\ Persisted(queue, "B") = "pending"
    /\ hist.outcome["C"] = "completed"

\* some task inside both scope filters (--only-task-ids and --id-regex) is blocked
BlockedInScope == \E id \in Ids : InScope(args, id) /\ Persisted(queue, id) = "blocked"

\* C11 as the spec states it: with --stop-on-blocked, the step the loop takes
\* at the top of a tick returns exit code 1 exactly when a task inside the
\* scope (id allowlist and id regex) is blocked.
C11_StopOnBlockedInScope ==
    [][(pc = "top" /\ pc' # "top" /\ args.stop_on_blocked /\ ~args.dry_run)
          => ((exit_code' = <<1>>) <=> BlockedInScope)]_vars

\* C11, the part the code keeps: with --stop-on-blocked the top of a tick
\* returns 1 exactly when a blocked task is inside the --only-task-ids scope
\* (the id regex is not looked at), nothing is admitted in that tick, and
\* without the flag the top of a tick never returns 1.
C11_StopOnBlockedInAllowlist ==
    [][(pc = "top" /\ pc' # "top")
          => /\ (exit_code' = <<1>>) <=>
                   /\ args.stop_on_blocked
                   /\ \E id \in Ids : /\ args.only_ids = {} \/ id \in args.only_ids
                                      /\ Persisted(queue, id) = "blocked"
             /\ exit_code' = <<1>> => UNCHANGED <<queue, commits, sup, running>>]_vars

\* the run stopped at the top of its first tick on a blocked task that the id
\* regex leaves outside the scope
C11_Witness ==
    /\ exit_code = <<1>> /\ ~hist.crashed /\ hist.admitted = {}
    /\ args.id_regex.on /\ args.stop_on_blocked
    /\ ~BlockedInScope
    /\ \E id \in Ids : Persisted(queue, id) = "blocked" /\ ~InScope(args, id)

\* C12: no step of a run with --dry-run changes the queue file, the session
\* log, the run root or a run directory, a worktree, a branch or the git
\* history, and none starts a supervisor.
C12_DryRunChangesNothing ==
    [][args.dry_run =>
          UNCHANGED <<queue, session_log, run_root, run, wt_disk, commits, base_head,
                      branches, sup>>]_vars

\* a dry run printed its plan and returned
C12_Witness ==
    /\ args.dry_run /\ exit_code = <<0>> /\ planned # <<>>
    /\ ~run_root /\ queue = hist.init /\ Len(commits) = 2

\* C13: what the first tick admits, computed as --dry-run computes it from the
\* queue and the flags the run starts on; nothing when --stop-on-blocked trips.
FirstTickPlan ==
    IF BlockedTasks(args, hist.init) # {} /\ args.stop_on_blocked
    THEN <<>>
    ELSE Plan(Runnable(args, hist.init), <<>>, _active_workstreams(hist.init))

IsPrefix(s, t) == Len(s) <= Len(t) /\ \A i \in 1..Len(s) : s[i] = t[i]

\* C13: a dry run prints FirstTickPlan; a real run on the same queue and flags
\* spawns, in its first tick, the tasks of FirstTickPlan in that order: what it
\* has spawned is at any moment a prefix of it and, when the admission loop of
\* the first tick is over, all of it; and it returns at the top of the first
\* tick only when FirstTickPlan is empty.
C13_DryRunIsFirstTick ==
    /\ (args.dry_run /\ Exited) => planned = FirstTickPlan
    /\ (~args.dry_run /\ ~hist.ticks) =>
          /\ hist.spawned \subseteq Range(FirstTickPlan)
          /\ pc \in {"admit", "admit_commit", "admit_spawn"} =>
                 IsPrefix(running, FirstTickPlan) /\ hist.spawned = Range(running)
          /\ pc \in {"watch", "check", "poll", "recheck"} => running = FirstTickPlan
          /\ (Exited /\ ~hist.crashed /\ args.has_spawn_script) => FirstTickPlan = <<>>

\* the first tick of a real run with two worker slots: it skipped a task whose
\* workstream is taken and spawned two tasks
C13_Witness ==
    /\ ~args.dry_run /\ ~hist.ticks /\ pc = "watch"
    /\ Len(running) = 2 /\ running = FirstTickPlan
    /\ running # SubSeq([i \in 1..Len(Runnable(args, hist.init)) |->
                            Runnable(args, hist.init)[i].id], 1, 2)

\* the dry run of the same plan
C13_DryWitness ==
    /\ args.dry_run /\ Exited /\ Len(planned) = 2
    /\ planned # SubSeq([i \in 1..Len(Runnable(args, hist.init)) |->
                            Runnable(args, hist.init)[i].id], 1, 2)

\* the docs-start commits of task id
StartCommits(id) == {i \in 1..Len(commits) : commits[i].msg = "docs: start " \o id}

\* every commit the worker of task id made descends from a docs-start commit of id
WorkAfterStart(id) ==
    \A w \in WorkerCommits(id) : \E s \in StartCommits(id) : IsAncestor(commits, s, w)

\* C14 as the spec states it: for every spawned task with a worktree, also one
\* whose branch or worktree was there before the run, the docs-start commit is
\* an ancestor of every commit of its worker.
C14_Original == \A id \in hist.spawned : WorkAfterStart(id)

\* C14: the flip to in_progress, the save and the docs-start commit come
\* before the worktree is made and the supervisor is spawned, for every task;
\* the task branch starts at the docs-start commit, and every commit of the
\* worker descends from it, when the admission created the branch (neither the
\* worktree nor the branch was there before).
C14_StartCommitBeforeWork ==
    /\ \A id \in hist.spawned :
          /\ StartCommits(id) # {}
          /\ id \in hist.fresh =>
                /\ WorkAfterStart(id)
                /\ \E s \in StartCommits(id) :
                      /\ run[id].base_sha = s
                      /\ Persisted(commits[s].q, id) = "in_progress"
    /\ pc = "admit_spawn" =>
          /\ cur \notin hist.spawned /\ sup[cur].pc = "none"
          /\ Persisted(queue, cur) = "in_progress"
          /\ commits[base_head].msg = "docs: start " \o cur
          /\ Persisted(HeadQueue, cur) = "in_progress"
          /\ task_base_sha[cur] = NoSha /\ run[cur].base_sha \notin StartCommits(cur)

\* a worker committed on a branch the admission created after the docs-start commit
C14_Witness ==
    \E id \in hist.fresh :
        /\ WorkerCommits(id) # {}
        /\ \E s \in StartCommits(id) : \E w \in WorkerCommits(id) :
              commits[w].parent = s /\ IsAncestor(commits, s, w)

\* task id is of type integration in the queue the run started on
IntegrationTask(id) == Lower(TaskOf(hist.init, id).type) = "integration"

\* this run marked task id completed
CompletedHere(id) == Persisted(queue, id) = "completed" /\ hist.outcome[id] = "completed"

\* C15 as the spec states it: every integration task this run marked
\* completed had its branch merged into the base branch first.
C15_Original ==
    \A id \in Ids : (IntegrationTask(id) /\ CompletedHere(id)) => hist.merged[id] # <<>>

\* C15: an integration task that ran in a worktree is marked completed only
\* after `git merge --ff-only` moved the base branch from its tip to the tip of
\* the task branch, a strict descendant of it that holds the worker's commit;
\* the docs-finish commit comes on top of the merged tip.
C15_IntegrationMergedFirst ==
    \A id \in Ids :
        (IntegrationTask(id) /\ UsesWorktree(TaskOf(hist.init, id).worktree) /\ CompletedHere(id))
            => /\ hist.merged[id] # <<>>
               /\ LET before == hist.merged[id][1]
                      after  == hist.merged[id][2]
                  IN  /\ before # after
                      /\ IsAncestor(commits, before, after)
                      /\ after = RevParse(PathName(TaskOf(hist.init, id).worktree))
                      /\ after \in WorkerCommits(id)
                      /\ IsAncestor(commits, after, base_head)
                      /\ \A c \in 1..Len(commits) :
                            commits[c].msg = "docs: finish " \o id
                               => IsAncestor(commits, after, c) /\ c # after

\* an integration task was merged by fast-forward and marked completed, its
\* docs-finish commit made
C15_Witness ==
    \E id \in Ids :
        /\ IntegrationTask(id) /\ CompletedHere(id) /\ hist.merged[id] # <<>>
        /\ hist.merged[id][1] # hist.merged[id][2]
        /\ \E c \in 1..Len(commits) :
              commits[c].msg = "docs: finish " \o id /\ commits[c].parent = hist.merged[id][2]

\* the ff-merge of task id's branch failed in this run
MergeFailed(id) == hist.outcome[id] = "blocked_merge"

\* C16: the step in which the ff-merge of an integration branch fails leaves
\* the base branch, the commits, the branches and the worktrees as they were;
\* from then on the task is blocked with the blocker "Failed ff-merge <branch>
\* into <base>: rc=<n>", never completed, its worktree is there, and its branch
\* is not part of the base branch.
C16_FailedMergeBlocks ==
    [][\A id \in Ids :
          /\ (~MergeFailed(id) /\ MergeFailed(id)')
                => UNCHANGED <<base_head, commits, branches, wt_disk>>
          /\ MergeFailed(id)' =>
                LET w == TaskOf(hist.init, id).worktree
                IN  /\ IntegrationTask(id) /\ UsesWorktree(w)
                    /\ Persisted(queue, id)' = "blocked"
                    /\ Rec(queue, id).blockers' =
                          <<"Failed ff-merge " \o PathName(w) \o " into main: rc=128">>
                    /\ wt_disk'[w] = "worktree"
                    /\ hist'.merged[id] = <<>>
                    /\ ~IsAncestor(commits', branches'[PathName(w)], base_head')]_vars

\* the ff-merge of an integration branch failed although its worker reported
\* success and committed; the blocked docs commit is made
C16_Witness ==
    \E id \in Ids :
        /\ MergeFailed(id) /\ WorkerCommits(id) # {}
        /\ run[id].done # <<>> /\ run[id].done[1].status = "success"
        /\ commits[base_head].msg = "docs: finish " \o id \o " (blocked)"

\* The orchestrator's loop keeps taking its next step (the watch of line 551
\* returns on its timeout at the latest), and every supervisor process keeps
\* running until it has ended.
\* The runs followed to their end: scenario 1 of the spec (the chain), and
\* beside it one worker on three ready tasks, a task behind a workstream that
\* stays in progress, a stop on a blocked task, a dry run, a worktree path
\* that is no worktree, two tasks run side by side (one of them an integration
\* task), the two dependency cycles, and an integration task in the
\* repository root.
FairConfigs ==
    {Config(QueueChain, ArgsTwoWorkers),
     Config(QueueThrottle, [ArgsTwoWorkers EXCEPT !.max_workers = 1, !.per_workstream = 0]),
     Config(QueueStale, [ArgsTwoWorkers EXCEPT !.max_workers = 1]),
     Config(QueueBlocked, [ArgsTwoWorkers EXCEPT !.stop_on_blocked = TRUE]),
     Config(QueueChain, [ArgsTwoWorkers EXCEPT !.dry_run = TRUE])}
    \cup {c \in LeftBehind : c.wt_disk["wt/A"] = "plain"}
    \cup {Config(QueueParallel, [ArgsTwoWorkers EXCEPT !.only_ids = {"A", "B"}])}
    \cup {Config(q, ArgsTwoWorkers) : q \in {QueueCycle, QueueCycleDone, QueueRootIntegration}}

FairInit == InitFrom(FairConfigs)

FairSpec ==
    /\ FairInit /\ [][Next]_vars
    /\ WF_vars(Orchestrator)
    /\ \A id \in Ids : WF_vars(Supervisor(id))

\* scenario 1 of the spec: the chain A <- B <- C run with --max-workers 2
\* --per-workstream 1
ChainScenario == hist.init = QueueChain /\ args = ArgsTwoWorkers

\* the chain is done: all three tasks completed, C merged, the worktrees
\* removed, exit code 0
ChainDone ==
    /\ exit_code = <<0>>
    /\ \A id \in Ids : Persisted(queue, id) = "completed" /\ hist.outcome[id] = "completed"
    /\ \A w \in WorktreePaths : wt_disk[w] = "absent"
    /\ hist.merged["C"] # <<>> /\ base_head # hist.merged["C"][1]

\* C17: in the chain scenario, as long as no worker has gone wrong, B is
\* spawned only once A is completed and C only once B is completed, and the
\* run ends with exit code 0 only in ChainDone; and every run in which no
\* worker goes wrong reaches ChainDone.
C17_ChainRunsInOrder ==
    /\ [](ChainScenario =>
             /\ "B" \in hist.admitted => Persisted(queue, "A") = "completed"
             /\ "C" \in hist.admitted => Persisted(queue, "B") = "completed"
             /\ (Exited /\ faults = 0) => ChainDone)
    /\ (ChainScenario /\ pc = "start") ~> (faults > 0 \/ ChainDone)

\* the chain is done and no worker went wrong
C17_Witness == ChainScenario /\ faults = 0 /\ ChainDone /\ hist.spawned = Ids

-----------------------------------------------------------------------------
(* The queue file and the history of the base branch.                      *)

\* the statuses a reader of the queue file p sees, task by task
Statuses(p) == [id \in Ids |-> Persisted(p, id)]

\* the orchestrator is between two ticks, or has not started, or has exited
BetweenTicks == pc \in {"start", "top", "exit"}

\* C18 as stated: in every reachable state, inside a tick too, the statuses in
\* the queue file on disk are the statuses in the queue file of the commit at
\* the head of the base branch.
C18_Original == Statuses(queue) = Statuses(HeadQueue)

\* C18, amended: whenever the orchestrator is between two ticks (before its
\* first tick, at the top of the loop, or after it has exited), the statuses in
\* the queue file on disk are the statuses in the queue file of the commit at
\* the head of the base branch; and inside a tick the two differ at most in the
\* tasks the tick has written and not yet committed: the one being admitted,
\* the one being finished, and those found without a sentinel.
C18_LockstepBetweenTicks ==
    /\ BetweenTicks => Statuses(queue) = Statuses(HeadQueue)
    /\ \A id \in Ids :
         Persisted(queue, id) # Persisted(HeadQueue, id) =>
           \/ pc = "admit_commit" /\ cur = id /\ Persisted(queue, id) = "in_progress"
           \/ pc \in {"fin_commit_done", "fin_commit_blocked"} /\ cur = id
           \/ id \in hist.no_sentinel /\ id \in Range(finished)
                /\ Persisted(queue, id) = "blocked"

\* a tick has ended with a status changed on disk and in the head commit
C18_Witness ==
    /\ pc = "top" /\ hist.ticks
    /\ Statuses(queue) # Statuses(hist.init)
    /\ Statuses(queue) = Statuses(HeadQueue)
    /\ \E id \in Ids : Persisted(queue, id) = "completed" /\ Persisted(hist.init, id) = "pending"

-----------------------------------------------------------------------------
(* The docs commits.                                                       *)

FinishCommits(id) == {i \in 1..Len(commits) : commits[i].msg = "docs: finish " \o id}

BlockedCommits(id) ==
    {i \in 1..Len(commits) : commits[i].msg = "docs: finish " \o id \o " (blocked)"}

\* the commits the orchestrator made
DocsCommits == UNION {StartCommits(id) \cup FinishCommits(id) \cup BlockedCommits(id) : id \in Ids}

\* the orchestrator is about to call _git_commit_paths
AtCommit == pc \in {"admit_commit", "fin_commit_done", "fin_commit_blocked"}

\* the transition of id that the orchestrator has written and committed
Started(id) == id \in hist.admitted /\ ~(pc = "admit_commit" /\ cur = id)
Finished(id) == hist.outcome[id] = "completed" /\ ~(pc = "fin_commit_done" /\ cur = id)
Blocked(id) ==
    /\ hist.outcome[id] \in {"blocked_status", "blocked_no_commit", "blocked_merge"}
    /\ ~(pc = "fin_commit_blocked" /\ cur = id)

\* C19: every transition the orchestrator makes has exactly one commit on the
\* base branch: one 'docs: start <id>' for an admitted task, one 'docs: finish
\* <id>' for a completed one, one 'docs: finish <id> (blocked)' for a blocked
\* one, and none otherwise; the queue file of a finish commit says blocked
\* exactly when the message has the suffix; the start commit of a task is an
\* ancestor of its finish commit; every docs commit changes a docs path; and
\* _git_commit_paths commits exactly when a staged path differs from HEAD, the
\* run going on either way.
C19_OneCommitPerTransition ==
    /\ [](\A id \in Ids :
            /\ Cardinality(StartCommits(id)) = IF Started(id) THEN 1 ELSE 0
            /\ Cardinality(FinishCommits(id)) = IF Finished(id) THEN 1 ELSE 0
            /\ Cardinality(BlockedCommits(id)) = IF Blocked(id) THEN 1 ELSE 0
            /\ \A f \in FinishCommits(id) : Persisted(commits[f].q, id) = "completed"
            /\ \A f \in BlockedCommits(id) : Persisted(commits[f].q, id) = "blocked"
            /\ \A s \in StartCommits(id) :
                 /\ Persisted(commits[s].q, id) = "in_progress"
                 /\ \A f \in FinishCommits(id) \cup BlockedCommits(id) :
                      s < f /\ IsAncestor(commits, s, f))
    /\ [](\A i \in DocsCommits :
            /\ IsAncestor(commits, i, base_head)
            /\ \/ commits[i].q # commits[commits[i].parent].q
               \/ commits[i].log # commits[commits[i].parent].log)
    /\ [][AtCommit /\ pc' # pc =>
            /\ _git_has_changes => Len(commits') = Len(commits) + 1 /\ base_head' = Len(commits')
            /\ ~_git_has_changes => UNCHANGED <<commits, base_head>>
            /\ pc' \in {"admit_spawn", "fin_remove", "finish"}]_vars

\* a run has committed a start and a finish, and a start and a blocked finish
C19_Witness ==
    /\ \E id \in Ids : StartCommits(id) # {} /\ FinishCommits(id) # {}
    /\ \E id \in Ids : StartCommits(id) # {} /\ BlockedCommits(id) # {}
    /\ \E id \in hist.no_sentinel : BlockedCommits(id) # {}

-----------------------------------------------------------------------------
(* The supervisor's sentinel.                                              *)

\* this step is the one in which the supervisor of id writes its sentinel
WritesDone(id) == sup[id].pc # "wrote" /\ sup'[id].pc = "wrote"

\* the repo root the supervisor of id was given is missing
RepoRootAbsent(id) == sup[id].repo_root # "" /\ wt_disk[sup[id].repo_root] = "absent"

\* C20: the sentinel a supervisor writes, having written worker.pid, says
\* success exactly when the child was launched and exited 0 without an
\* exception; otherwise it says failed with an error: nonzero_exit after a
\* non-zero exit, exception:<type> after an exception, missing_prompt when the
\* prompt file is absent, missing_repo when the prompt is there and the repo
\* root is absent, the last two with no child launched and no exit_code line;
\* and the supervisor's own exit code is 0 exactly when the sentinel says
\* success (2 for the two missing cases, 1 otherwise).
C20_SentinelTellsTheOutcome ==
    [][\A id \in Ids :
         WritesDone(id) =>
           LET d == run'[id].done[1]
               launched == hist.child[id] # ""
           IN  /\ run'[id].done # <<>> /\ run'[id].pid
               /\ d.task_id = id
               /\ d.status \in {"success", "failed"}
               /\ d.status = "success" <=> hist.child[id] = "exited 0"
               /\ d.status = "success" <=> d.error = ""
               /\ d.error = "nonzero_exit" <=> hist.child[id] = "exited nonzero"
               /\ d.error = "exception:OSError" <=> hist.child[id] = "exception"
               /\ d.error = "missing_prompt" <=> (~launched /\ ~run[id].prompt)
               /\ d.error = "missing_repo" <=> (~launched /\ run[id].prompt /\ RepoRootAbsent(id))
               /\ launched <=> sup[id].pc = "child_exited"
               /\ launched => run[id].prompt /\ ~RepoRootAbsent(id)
               /\ d.exit_code = (CASE hist.child[id] = "exited 0" -> <<0>>
                                   [] hist.child[id] \in {"exited nonzero", "exception"} -> <<1>>
                                   [] OTHER -> <<>>)
               /\ sup'[id].rc = (IF d.status = "success" THEN <<0>>
                                 ELSE IF launched THEN <<1>> ELSE <<2>>)]_vars

\* a supervisor has written a success sentinel after its child exited 0
C20_Witness ==
    \E id \in Ids :
      /\ sup[id].pc = "wrote" /\ run[id].done # <<>>
      /\ hist.child[id] = "exited 0"
      /\ run[id].done[1].status = "success" /\ sup[id].rc = <<0>>

\* a supervisor has written a failed sentinel of the given kind
FailedWith(e) ==
    \E id \in Ids : sup[id].pc = "wrote" /\ run[id].done # <<>> /\ run[id].done[1].error = e

C20_WitnessNonzeroExit == FailedWith("nonzero_exit")
C20_WitnessException == FailedWith("exception:OSError")
C20_WitnessMissingPrompt == FailedWith("missing_prompt")
C20_WitnessMissingRepo == FailedWith("missing_repo")

-----------------------------------------------------------------------------
(* A sentinel that does not say success.                                   *)

\* this step classifies id as blocked for its sentinel's status
BlocksForStatus(id) == hist.outcome[id] = "" /\ hist'.outcome[id] = "blocked_status"

\* the status line of the sentinel of id, lower-cased; "unknown" without one
StatusRead(id) ==
    IF run[id].done # <<>> /\ run[id].done[1].status # ""
    THEN Lower(run[id].done[1].status)
    ELSE "unknown"

\* C21: the step that classifies a finished task whose sentinel's status,
\* lower-cased, is not success (no status reads as unknown) writes it blocked,
\* with the one blocker "Worker status=<status> (see .runs)." and unblock steps
\* naming worker.log and the sentinel, and touches neither the base branch nor
\* any branch or worktree; every finished task with such a sentinel takes this
\* step; from then on the task is never completed, has no 'docs: finish <id>'
\* commit and no merge, and its worktree, if it has one, is on disk.
C21_FailedStatusBlocks ==
    /\ [][\A id \in Ids :
            /\ BlocksForStatus(id) =>
                 /\ StatusRead(id) # "success"
                 /\ Persisted(queue, id)' = "blocked"
                 /\ Rec(queue, id).blockers' =
                       <<"Worker status=" \o StatusRead(id) \o " (see .runs).">>
                 /\ Rec(queue, id).unblock_steps' =
                       <<"Inspect " \o LogPath(id), "Inspect " \o DonePath(id),
                         "Adjust prompt and rerun.">>
                 /\ UNCHANGED <<base_head, commits, branches, wt_disk>>
            /\ (hist.outcome[id] = "" /\ hist'.outcome[id] # "" /\ StatusRead(id) # "success")
                 => hist'.outcome[id] = "blocked_status"]_vars
    /\ [](\A id \in Ids :
            hist.outcome[id] = "blocked_status" =>
              /\ Persisted(queue, id) = "blocked"
              /\ FinishCommits(id) = {}
              /\ hist.merged[id] = <<>>
              /\ LET w == TaskOf(hist.init, id).worktree
                 IN  UsesWorktree(w) => wt_disk[w] = "worktree")

\* an integration task whose worker committed on its branch, so that the
\* ff-merge would go through, is blocked for the failed status of its sentinel
C21_Witness ==
    \E id \in Ids :
      /\ hist.outcome[id] = "blocked_status"
      /\ run[id].done # <<>> /\ run[id].done[1].status = "failed"
      /\ IntegrationTask(id) /\ WorkerCommits(id) # {}
      /\ BlockedCommits(id) # {}
      /\ wt_disk[TaskOf(hist.init, id).worktree] = "worktree"

\* a task with no sentinel is blocked with the status read as unknown
C21_WitnessUnknown ==
    \E id \in Ids :
      /\ hist.outcome[id] = "blocked_status" /\ run[id].done = <<>>
      /\ BlockedCommits(id) # {}

-----------------------------------------------------------------------------
(* What the classification depends on.                                     *)

Classified(id) == hist.outcome[id] # ""

\* completed or blocked, as the classification loop decided
Verdict(id) == IF hist.outcome[id] = "completed" THEN "completed" ELSE "blocked"

\* what the sentinel of id says, the task id aside; <<>> without a sentinel
SentinelSays(id) ==
    IF run[id].done = <<>> THEN <<>>
    ELSE <<run[id].done[1].status, run[id].done[1].exit_code, run[id].done[1].error>>

\* the answer to `branch tip equals recorded base sha`, for a task with a worktree
TipAnswer(id) ==
    LET w == TaskOf(hist.init, id).worktree
    IN  IF ~UsesWorktree(w) THEN "no worktree"
        ELSE IF branches[PathName(w)] \in {NoSha, BaseShaOf(id)} THEN "no commit"
        ELSE "moved"

\* C22 as stated: two classified tasks with the same sentinel contents and
\* the same answer to the branch-tip check have the same status, whatever
\* their type and the outcome of the merge.
C22_Original ==
    \A i, j \in Ids :
      (Classified(i) /\ Classified(j) /\ SentinelSays(i) = SentinelSays(j)
         /\ TipAnswer(i) = TipAnswer(j))
      => Verdict(i) = Verdict(j)

\* C22, amended: the status of a classified task is a function of the status
\* line of its sentinel, the answer to the branch-tip check and, for an
\* integration task with a worktree, the outcome of the ff-merge: it is
\* completed exactly when the sentinel says success, the branch has moved off
\* the recorded base sha if there is a worktree, and the merge of an
\* integration branch went through; the other tasks' states and the time the
\* supervisor exited play no part.
C22_ClassificationIsDetermined ==
    \A id \in Ids :
      Classified(id) =>
        (Verdict(id) = "completed" <=>
           /\ run[id].done # <<>> /\ Lower(run[id].done[1].status) = "success"
           /\ TipAnswer(id) # "no commit"
           /\ (IntegrationTask(id) /\ TipAnswer(id) = "moved") => hist.merged[id] # <<>>)

\* two tasks whose sentinels say the same and whose branches both moved: one
\* is completed, the integration task is blocked for its failed merge
C22_Witness ==
    \E i, j \in Ids :
      /\ Classified(i) /\ Classified(j)
      /\ SentinelSays(i) = SentinelSays(j) /\ TipAnswer(i) = "moved" /\ TipAnswer(j) = "moved"
      /\ hist.outcome[i] = "completed" /\ hist.outcome[j] = "blocked_merge"

-----------------------------------------------------------------------------
(* The ready sequence and the admission pass.                              *)

\* the position of task id in the queue file p, and its sort key: the order
\* field, or ten times the position when the dict has none
Pos(p, id) == CHOOSE i \in 1..Len(p.tasks) : p.tasks[i].id = id

OrderKey(p, id) ==
    IF p.tasks[Pos(p, id)].order # <<>> THEN p.tasks[Pos(p, id)].order[1] ELSE Pos(p, id) * 10

\* a sorts before b: by order, and by position in the queue when the orders tie
Before(p, a, b) ==
    \/ OrderKey(p, a) < OrderKey(p, b)
    \/ OrderKey(p, a) = OrderKey(p, b) /\ Pos(p, a) < Pos(p, b)

\* the in-scope tasks of p that are pending with all dependencies completed
ReadySet(p) == {id \in Ids : InScope(args, id) /\ ReadyIn(p, id)}

\* s lists the ready tasks of p, each once, sorted
IsReadySequence(s, p) ==
    /\ Len(s) = Cardinality(ReadySet(p))
    /\ {s[i].id : i \in 1..Len(s)} = ReadySet(p)
    /\ \A i, j \in 1..Len(s) : i < j => Before(p, s[i].id, s[j].id)

\* the workstream of id is taken by a task the queue file has in progress
Gated(id) ==
    /\ args.per_workstream > 0
    /\ \E j \in 1..Len(queue.tasks) :
         /\ _normalize_status(queue.tasks[j].status) = "in_progress"
         /\ _derive_workstream_id(queue.tasks[j]) = _derive_workstream_id(Rec(queue, id))

\* the admission pass ends without an exception
PassEnds == pc = "admit" /\ pc' = "watch"

\* the ready sequence of a tick is the sorted list of the ready tasks of the
\* snapshot, and a task is admitted after the ready tasks that sort before it
\* were admitted or found gated; only tasks that sort before it were admitted
ReadyAndAdmittedInOrder ==
    /\ (pc = "top" /\ pc' = "admit") => IsReadySequence(runnable', queue)
    /\ \A id \in Ids :
         Flipped(id) =>
           /\ id \in ReadySet(hist.snapshot)
           /\ \A a \in hist.tick_admitted : Before(hist.snapshot, a, id)
           /\ \A b \in ReadySet(hist.snapshot) :
                Before(hist.snapshot, b, id) => b \in hist.tick_admitted \/ Gated(b)

\* C23 as stated: the ready sequence is the sorted list of the ready tasks,
\* and a pass admits its tasks in that order and leaves out only the tasks
\* gated by the workstream rule.
C23_Original ==
    [][/\ ReadyAndAdmittedInOrder
       /\ PassEnds =>
            \A id \in ReadySet(hist.snapshot) : id \in hist.tick_admitted \/ Gated(id)]_vars

\* C23, amended: the ready sequence of a tick holds exactly the in-scope
\* tasks of the snapshot that are pending with all dependencies completed,
\* each once, sorted by order (ten times the position for a dict without one)
\* and by position in the queue among equal orders; a pass admits its tasks in
\* that order; and a pass leaves out the tasks gated by the workstream rule
\* and, once max-workers tasks are running, every task that sorts after the
\* ones it admitted.
C23_ReadySequenceAdmittedInOrder ==
    [][/\ ReadyAndAdmittedInOrder
       /\ PassEnds =>
            \A id \in ReadySet(hist.snapshot) :
              \/ id \in hist.tick_admitted
              \/ Gated(id)
              \/ /\ Len(running) >= args.max_workers
                 /\ \A a \in hist.tick_admitted : Before(hist.snapshot, a, id)]_vars

\* two tasks were admitted in one pass against the order of the queue file,
\* and the third was left out because two workers are running
C23_Witness ==
    /\ pc = "watch"
    /\ hist.tick_admitted = {"A", "B"}
    /\ running = <<"B", "A">>
    /\ ReadySet(hist.snapshot) = {"A", "B", "C"}
    /\ Pos(hist.snapshot, "A") < Pos(hist.snapshot, "B")
    /\ ~Gated("C")

-----------------------------------------------------------------------------
(* Worktrees on disk.                                                      *)

\* the worktree field of task id, and whether it names a real worktree
WorktreeOf(id) == TaskOf(hist.init, id).worktree

HasWorktree(id) == UsesWorktree(WorktreeOf(id))

OnDisk(id) == wt_disk[WorktreeOf(id)] = "worktree"

\* C24 as stated: at every tick boundary, for each task with a real worktree,
\* the worktree is on disk exactly when the task is in_progress or was marked
\* blocked after being run.
C24_Original ==
    pc = "top" =>
      \A id \in Ids :
        HasWorktree(id) =>
          (OnDisk(id) <=> \/ Persisted(queue, id) = "in_progress"
                          \/ Persisted(queue, id) = "blocked" /\ hist.outcome[id] # "")

\* C24, amended: at every tick boundary, for each task with a real worktree
\* that this run admitted, the worktree is on disk exactly when the task is
\* in_progress or blocked, and a completed one has its worktree gone, its
\* docs-finish commit made and its branch in git; a worktree comes into being
\* only where nothing was, in the admission of its task, and goes only in the
\* removal that follows the docs-finish commit of its completed task; what an
\* earlier run left (a worktree of a task not admitted, an in_progress task
\* without one) stays as it was found; no branch is ever deleted.
C24_WorktreeFollowsStatus ==
    /\ [](pc = "top" =>
            \A id \in hist.admitted :
              HasWorktree(id) =>
                /\ OnDisk(id) <=> Persisted(queue, id) \in {"in_progress", "blocked"}
                /\ Persisted(queue, id) = "completed" =>
                     /\ wt_disk[WorktreeOf(id)] = "absent"
                     /\ FinishCommits(id) # {}
                     /\ branches[PathName(WorktreeOf(id))] # NoSha)
    /\ [][\A w \in WorktreePaths :
            /\ wt_disk'[w] # wt_disk[w] =>
                 \/ /\ wt_disk[w] = "absent" /\ wt_disk'[w] = "worktree"
                    /\ pc = "admit_spawn" /\ WorktreeOf(cur) = w
                    /\ Persisted(queue, cur) = "in_progress"
                 \/ /\ wt_disk[w] = "worktree" /\ wt_disk'[w] = "absent"
                    /\ pc = "fin_remove" /\ WorktreeOf(cur) = w
                    /\ Persisted(queue, cur) = "completed"
                    /\ commits[base_head].msg = "docs: finish " \o cur
            /\ branches[PathName(w)] # NoSha => branches'[PathName(w)] # NoSha]_vars

\* a tick has ended with one task completed, its worktree gone and its branch
\* kept, and another blocked with its worktree on disk
C24_Witness ==
    /\ pc = "top"
    /\ \E id \in hist.admitted :
         /\ HasWorktree(id) /\ Persisted(queue, id) = "completed"
         /\ wt_disk[WorktreeOf(id)] = "absent" /\ branches[PathName(WorktreeOf(id))] # NoSha
    /\ \E id \in hist.admitted :
         /\ HasWorktree(id) /\ Persisted(queue, id) = "blocked" /\ OnDisk(id)

-----------------------------------------------------------------------------
(* Blocked tasks as data.                                                  *)

BlockedKinds == {"blocked_status", "blocked_no_commit", "blocked_merge"}

\* the orchestrator has written task id blocked in this run
MarkedBlocked(id) == id \in hist.no_sentinel \/ hist.outcome[id] \in BlockedKinds

\* the record of id in the queue file p is a full blocked record
BlockedRecord(p, id) ==
    /\ Persisted(p, id) = "blocked"
    /\ Rec(p, id).blocked_at # ""
    /\ Rec(p, id).blockers # <<>>
    /\ Rec(p, id).unblock_steps # <<>>
    /\ \A k \in 1..Len(Rec(p, id).blockers) : Rec(p, id).blockers[k] # ""
    /\ \A k \in 1..Len(Rec(p, id).unblock_steps) : Rec(p, id).unblock_steps[k] # ""

\* C25: every task the orchestrator has marked blocked (failed sentinel, no
\* sentinel, no commit, failed ff-merge) has blocked_at set and non-empty
\* blockers and unblock_steps in the queue file, and in the committed queue at
\* every tick boundary; and without --stop-on-blocked, once a task is marked
\* blocked, the run ends only by returning 0 with no in-scope task ready and
\* nothing running, or by an exception, and every admission pass still admits
\* each ready task of its snapshot unless it is gated by the workstream rule or
\* max-workers tasks are running.
C25_BlockedIsData ==
    /\ [](\A id \in Ids :
            MarkedBlocked(id) =>
              /\ BlockedRecord(queue, id)
              /\ pc = "top" => BlockedRecord(HeadQueue, id))
    /\ [][(~args.stop_on_blocked /\ \E id \in Ids : MarkedBlocked(id)) =>
            /\ (pc # "exit" /\ pc' = "exit") =>
                 \/ exit_code' = <<0>> /\ NoneReady /\ running = <<>>
                 \/ hist'.crashed
            /\ PassEnds =>
                 \A id \in ReadySet(hist.snapshot) :
                   id \in hist.tick_admitted \/ Gated(id) \/ Len(running) >= args.max_workers]_vars

\* without --stop-on-blocked, a task is admitted in a tick whose snapshot has
\* a task this run marked blocked, of each of the four kinds
AdmittedBeside(blocked) ==
    /\ ~args.stop_on_blocked
    /\ \E id \in hist.tick_admitted : blocked \notin Range(Rec(hist.snapshot, id).depends_on)
    /\ MarkedBlocked(blocked) /\ BlockedRecord(hist.snapshot, blocked)

C25_Witness == \E b \in Ids : AdmittedBeside(b) /\ hist.outcome[b] = "blocked_status"

C25_WitnessNoSentinel == \E b \in Ids : AdmittedBeside(b) /\ b \in hist.no_sentinel

C25_WitnessNoCommit == \E b \in Ids : AdmittedBeside(b) /\ hist.outcome[b] = "blocked_no_commit"

C25_WitnessMerge == \E b \in Ids : AdmittedBeside(b) /\ hist.outcome[b] = "blocked_merge"

-----------------------------------------------------------------------------
(* What a rewrite of the queue file changes.                               *)

\* the positions of the queue file whose dict this step changes
Rewritten == {i \in 1..Len(queue.tasks) : queue'.tasks[i] # queue.tasks[i]}

\* the keys whose values differ between the dicts t and u
ChangedKeys(t, u) == {f \in DOMAIN t : u[f] # t[f]}

\* C26: every step that rewrites the queue file keeps the container (array,
\* or object with its other keys) and the number of entries, and changes one
\* dict only, that of the task being admitted, found without a sentinel or
\* classified; in it the keys are the same and only status and started_at
\* (admission), status and completed_at (completion), or status, blocked_at,
\* blockers and unblock_steps (blocked) change; every other dict, a task out
\* of scope and an entry without an id included, and every key the
\* orchestrator does not know, is written back as it was.
C26_RewriteChangesOneTask ==
    [][queue' # queue =>
         /\ queue'.form = queue.form /\ queue'.other = queue.other
         /\ Len(queue'.tasks) = Len(queue.tasks)
         /\ Cardinality(Rewritten) = 1
         /\ \A i \in Rewritten :
              LET t == queue.tasks[i]
                  u == queue'.tasks[i]
              IN  /\ t.id \in Ids /\ u.id = t.id
                  /\ t.id = IF pc = "recheck" THEN Head(checkq) ELSE cur'
                  /\ DOMAIN u = DOMAIN t
                  /\ u.notes = t.notes
                  /\ ChangedKeys(t, u) \subseteq
                       (CASE _normalize_status(u.status) = "in_progress" -> {"status", "started_at"}
                          [] _normalize_status(u.status) = "completed" -> {"status", "completed_at"}
                          [] OTHER -> {"status", "blocked_at", "blockers", "unblock_steps"})
                  /\ _normalize_status(u.status) \in {"in_progress", "completed", "blocked"}]_vars

\* the queue file is an object whose first entry has no id; a task of it was
\* admitted and completed, and the container, the entry without an id, the
\* deferred task and the notes of every task are what the run started on
C26_Witness ==
    /\ queue.form = "object" /\ queue.other = hist.init.other /\ queue.other # ""
    /\ queue.tasks[1].id = "" /\ queue.tasks[1] = hist.init.tasks[1]
    /\ \E id \in Ids : Persisted(queue, id) = "completed" /\ Persisted(hist.init, id) = "pending"
    /\ \A i \in 1..Len(queue.tasks) : queue.tasks[i].notes = hist.init.tasks[i].notes
    /\ \E id \in Ids : Persisted(queue, id) = "deferred" /\ Rec(queue, id) = Rec(hist.init, id)

\* a run with --only-task-ids has rewritten the queue file, and the tasks out
\* of its scope are as they were
C26_WitnessScope ==
    /\ args.only_ids # {} /\ queue # hist.init
    /\ \A id \in Ids \ args.only_ids : Rec(queue, id) = Rec(hist.init, id)
    /\ Ids \ args.only_ids # {}

\* ---- C27 ----
\* the files of the run directory the orchestrator writes (prompt.md,
\* base_sha.txt, failure.md) and those the supervisor and its child write
\* (worker.pid, worker.log, the DONE sentinel)
OrchestratorFiles(rd) == <<rd.prompt, rd.base_sha, rd.failure>>

SupervisorFiles(rd) == <<rd.pid, rd.log, rd.done>>

\* a supervisor step leaves the queue file, the session log and the
\* orchestrator's files of every run directory alone, and the other tasks'
\* run directories too
SupervisorKeepsToItsFiles ==
    \A id \in Ids :
        Supervisor(id) =>
            /\ queue' = queue
            /\ session_log' = session_log
            /\ \A j \in Ids :
                   /\ OrchestratorFiles(run'[j]) = OrchestratorFiles(run[j])
                   /\ j # id => run'[j] = run[j]

\* C27 as the spec states it: no file of a run directory is written or
\* deleted by both parties; the orchestrator touches only prompt.md,
\* base_sha.txt and failure.md, the supervisor only worker.pid, worker.log
\* and the DONE sentinel, and the queue file and the session log are the
\* orchestrator's alone.
C27_Original ==
    [][/\ Orchestrator => \A id \in Ids : SupervisorFiles(run'[id]) = SupervisorFiles(run[id])
       /\ SupervisorKeepsToItsFiles]_vars

\* C27 (amended): the orchestrator never writes worker.pid, worker.log or the
\* DONE sentinel, but it deletes the sentinel an earlier run left, when it
\* admits the task and before it spawns the task's supervisor; the supervisor
\* and its child touch only worker.pid, worker.log and the sentinel of their
\* own task, and never the queue file nor the session log.
C27_FilesHaveOneWriter ==
    [][/\ Orchestrator =>
             \A id \in Ids :
                 /\ run'[id].pid = run[id].pid
                 /\ run'[id].log = run[id].log
                 /\ run'[id].done # run[id].done =>
                        /\ run'[id].done = <<>>
                        /\ pc = "admit"
                        /\ id \notin hist.spawned
                        /\ id \in hist'.admitted \ hist.admitted
       /\ SupervisorKeepsToItsFiles]_vars

\* a run directory holds the files of both parties, the sentinel written by
\* this run's supervisor
C27_Witness ==
    \E id \in Ids :
        /\ id \in hist.spawned
        /\ run[id].prompt /\ run[id].base_sha # NoSha
        /\ run[id].pid /\ run[id].log > 0 /\ run[id].done # <<>>

\* the orchestrator is about to admit a task whose run directory holds the
\* sentinel of an earlier run
C27_WitnessStaleSentinel ==
    /\ pc = "admit" /\ runnable # <<>>
    /\ run[Head(runnable).id].done # <<>>
    /\ Head(runnable).id \notin hist.admitted

\* the orchestrator wrote failure.md beside the supervisor's worker.log
C27_WitnessFailureFile ==
    \E id \in Ids : run[id].failure # <<>> /\ run[id].pid /\ run[id].done = <<>>

\* ---- C28 ----
\* the tick passes line 549 without calling _file_watch_once
NoWait == pc = "watch" /\ pc' = "check" /\ ~(~spawned_any /\ running # <<>>)

\* C28: the loop never busy-waits: a tick that does not exit and spawns no
\* task blocks on the watch of the run root before the queue is read again.
C28_NoBusyWait ==
    [][NoWait => spawned_any]_vars

\* what the code keeps: a tick that spawned nothing skips the watch only when
\* no worker runs and every runnable task is held back by the workstream gate,
\* its workstream being taken by an in_progress task of the queue file
C28_SpinsOnlyBehindStaleTask ==
    pc = "watch" /\ ~spawned_any /\ running = <<>> =>
        /\ ReadySet(queue) # {}
        /\ \A id \in ReadySet(queue) : Gated(id)
        /\ \A id \in Ids : Persisted(queue, id) = "in_progress" => sup[id].pc = "none"
        /\ queue = hist.snapshot

\* the loop goes round a second time with nothing running, nothing spawned and
\* the queue as the tick found it: it is about to skip the watch again
C28_Witness ==
    /\ hist.ticks
    /\ pc = "watch" /\ ~spawned_any /\ running = <<>>
    /\ queue = hist.snapshot

\* ---- C29 ----
\* the supervisor of id takes a step
SupStep(id) == Supervisor(id) /\ sup'[id] # sup[id]

\* the supervisor of id is between the deletion of the old sentinel and the
\* writing of its own
BeforeSentinel(id) == sup[id].pc \in {"unlinked", "pid_written", "child", "child_exited"}

\* the supervisor of id has written worker.pid
AfterPid(id) == sup[id].pc \in {"pid_written", "child", "child_exited", "wrote"}

\* the child of id was launched and waited for, or could not be launched
ChildOver(id) == hist.child[id] \in {"exited 0", "exited nonzero", "exception"}

\* C29: a supervisor run deletes the old sentinel, then writes worker.pid,
\* then launches the child if the prompt and the repo root exist, waits for
\* it and writes the sentinel: no sentinel lies in the run directory from the
\* deletion to the supervisor's own write, worker.pid is written with the
\* sentinel gone and before the child is launched, the child is launched only
\* with prompt and repo root, the sentinel is written once, not while the
\* child runs, and nothing is written after it.
C29_SupervisorStepsInOrder ==
    /\ [](\A id \in Ids :
            /\ BeforeSentinel(id) => run[id].done = <<>>
            /\ AfterPid(id) => run[id].pid
            /\ sup[id].pc = "child" => run[id].prompt /\ SupRepoRootExists(id)
            /\ sup[id].pc = "child_exited" => ChildOver(id)
            /\ sup[id].pc = "wrote" => run[id].done # <<>> /\ run[id].done[1].task_id = id)
    /\ [][\A id \in Ids :
            SupStep(id) =>
                /\ run'[id].pid # run[id].pid \/ sup'[id].pc = "pid_written" =>
                       sup[id].pc = "unlinked" /\ run[id].done = <<>> /\ run'[id].pid
                /\ sup'[id].pc = "child" => sup[id].pc = "pid_written"
                /\ run'[id].done # run[id].done /\ run'[id].done # <<>> =>
                       /\ run[id].done = <<>>
                       /\ sup'[id].pc = "wrote"
                       /\ \/ sup[id].pc = "child_exited" /\ ChildOver(id)
                          \/ /\ sup[id].pc = "pid_written"
                             /\ ~(run[id].prompt /\ SupRepoRootExists(id))
                /\ sup[id].pc = "wrote" => run' = run /\ sup'[id].pc = "exited"]_vars

\* a supervisor started beside the sentinel of an earlier run has written its
\* own after its child exited
C29_Witness ==
    \E id \in Ids :
        /\ id \notin hist.spawned
        /\ sup[id].pc = "wrote"
        /\ hist.child[id] = "exited 0"
        /\ run[id].pid /\ run[id].done # <<>> /\ run[id].done[1].exit_code = <<0>>

\* worker.pid is written and the old sentinel gone, the child not yet launched
C29_WitnessPidBeforeChild ==
    \E id \in Ids : sup[id].pc = "pid_written" /\ run[id].pid /\ run[id].done = <<>>

\* ---- C30 ----
\* the integration task id got a branch newly created at its admission, and
\* its worker committed on it
FreshIntegration(id) ==
    IntegrationTask(id) /\ id \in hist.fresh /\ WorkerCommits(id) # {}

\* the docs commits the orchestrator makes for task j
DocsMessages(j) ==
    {"docs: start " \o j, "docs: finish " \o j, "docs: finish " \o j \o " (blocked)"}

\* a docs commit of another task is on the base branch and not on the branch
\* of id: it landed after the branch was cut
OtherDocsLanded(id) ==
    \E c \in 1..Len(commits) :
        /\ IsAncestor(commits, c, base_head)
        /\ ~IsAncestor(commits, c, RevParse(PathName(TaskOf(hist.init, id).worktree)))
        /\ \E j \in Ids \ {id} : commits[c].msg \in DocsMessages(j)

\* C30: for an integration task whose branch is newly created at admission
\* and whose worker commits on it, the fast-forward merge succeeds, also when
\* other tasks are admitted or finished while it is in progress.
C30_FreshIntegrationMerges ==
    \A id \in Ids : FreshIntegration(id) => ~MergeFailed(id)

\* what the code keeps: the merge of such a task fails only when a docs commit
\* of another task landed on the base branch after the branch was cut
C30_MergeFailsOnlyBehindOtherDocs ==
    \A id \in Ids : FreshIntegration(id) /\ MergeFailed(id) => OtherDocsLanded(id)

\* the merge of a newly created integration branch failed, the worker having
\* committed on it and reported success
C30_Witness ==
    \E id \in Ids :
        /\ FreshIntegration(id) /\ MergeFailed(id)
        /\ run[id].done # <<>> /\ run[id].done[1].status = "success"
        /\ OtherDocsLanded(id)

\* such a task is merged and completed when it runs alone
C30_WitnessMerged ==
    \E id \in Ids :
        FreshIntegration(id) /\ CompletedHere(id) /\ hist.merged[id] # <<>> /\ ~OtherDocsLanded(id)

\* ---- C31 ----
\* _ensure_worktree raised for the task the orchestrator was admitting
WorktreeFailed == hist.crashed /\ exit_code # <<>>

\* C31: when preparing the worktree of an admitted task fails, the run aborts
\* without a supervisor for that task and without another admission, and the
\* queue file does not keep the task in_progress with no supervisor.
C31_WorktreeFailureLeavesNoOrphan ==
    WorktreeFailed =>
        /\ cur \notin hist.spawned /\ sup[cur].pc = "none"
        /\ Persisted(queue, cur) # "in_progress"

\* what the code keeps: the run ends with exit status 1, no supervisor was
\* spawned for the task and nothing is admitted afterwards; the task stays
\* in_progress in the queue file and in the docs-start commit, its worktree
\* path as it was
C31_WorktreeFailureAborts ==
    /\ [](WorktreeFailed =>
            /\ exit_code = <<1>>
            /\ cur \notin hist.spawned /\ sup[cur].pc = "none"
            /\ Persisted(queue, cur) = "in_progress"
            /\ Persisted(HeadQueue, cur) = "in_progress"
            /\ commits[base_head].msg = "docs: start " \o cur
            /\ wt_disk[TaskOf(queue, cur).worktree] = "plain")
    /\ [][WorktreeFailed => UNCHANGED <<queue, session_log, commits, base_head, branches,
                                         wt_disk, pc, exit_code>>
                             /\ hist'.admitted = hist.admitted
                             /\ hist'.spawned = hist.spawned]_vars

\* the run ended on the exception, the task it was admitting in_progress in
\* the queue file without a supervisor
C31_Witness ==
    /\ WorktreeFailed
    /\ Persisted(queue, cur) = "in_progress" /\ sup[cur].pc = "none"
    /\ wt_disk[TaskOf(queue, cur).worktree] = "plain"

\* ---- C32 ----
\* the moves of a persisted status the orchestrator makes
StatusMoves ==
    {<<"pending", "in_progress">>, <<"in_progress", "completed">>, <<"in_progress", "blocked">>}

\* this step starts a supervisor process for id
SpawnsSupervisor(id) == sup[id].pc # "spawned" /\ sup'[id].pc = "spawned"

\* C32: within one run a supervisor is spawned for a task at most once, for a
\* task just flipped from pending; the persisted status of a task moves only
\* pending -> in_progress -> completed or pending -> in_progress -> blocked;
\* a task that starts the run blocked, deferred, completed or in_progress is
\* never admitted and keeps its status, and no task returns to pending.
C32_OneWayStatus ==
    [][\A id \in Ids :
          /\ Persisted(queue, id)' # Persisted(queue, id) =>
                 /\ <<Persisted(queue, id), Persisted(queue, id)'>> \in StatusMoves
                 /\ Persisted(hist.init, id) = "pending"
          /\ Flipped(id) => id \notin hist.admitted /\ id \notin hist.spawned
          /\ SpawnsSupervisor(id) =>
                 /\ id \notin hist.spawned /\ id \in hist.admitted
                 /\ sup[id].pc = "none"
                 /\ Persisted(queue, id) = "in_progress"
                 /\ Persisted(hist.init, id) = "pending"]_vars

\* a run ended in which one task went pending -> in_progress -> completed
\* and another pending -> in_progress -> blocked, each with one supervisor
C32_Witness ==
    /\ \E a, b \in hist.spawned :
          /\ Persisted(queue, a) = "completed" /\ Persisted(queue, b) = "blocked"
          /\ Persisted(hist.init, a) = "pending" /\ Persisted(hist.init, b) = "pending"
          /\ sup[a].pc = "dropped" \/ sup[a].pc = "exited"
    /\ exit_code # <<>>

\* a run ended with a task that was blocked from the start still blocked and
\* never admitted, another task completed beside it
C32_WitnessBlockedStays ==
    /\ exit_code = <<0>>
    /\ \E b \in Ids \ hist.admitted :
          Persisted(hist.init, b) = "blocked" /\ Persisted(queue, b) = "blocked"
    /\ \E a \in hist.spawned : Persisted(queue, a) = "completed"

\* ---- C33 ----
\* the queue file the run started on has no task in progress
StartedClean == \A id \in Ids : Persisted(hist.init, id) # "in_progress"

\* C33: from a queue with no in_progress task and with max_workers >= 1, if
\* every supervisor keeps running until it has written its sentinel or ended
\* and the orchestrator keeps taking its next step, main() returns (or ends on
\* an exception), whatever the workers did and whatever the dependencies are.
C33_LoopExits ==
    (pc = "start" /\ StartedClean /\ args.max_workers >= 1) ~> Exited

\* a run that started clean ended after a failed merge of one task and the
\* completion of another
C33_Witness ==
    /\ Exited /\ StartedClean
    /\ \E a, b \in hist.spawned : hist.outcome[a] = "blocked_merge" /\ hist.outcome[b] = "completed"

\* a run on a dependency cycle ended with the members of the cycle pending
C33_WitnessCycle ==
    /\ exit_code = <<0>> /\ StartedClean
    /\ \E a, b \in Ids :
          /\ a # b
          /\ Persisted(queue, a) = "pending" /\ Persisted(queue, b) = "pending"
          /\ a \in Range(Rec(queue, b).depends_on) /\ b \in Range(Rec(queue, a).depends_on)

\* a run ended after a supervisor was gone without a sentinel
C33_WitnessNoSentinel ==
    Exited /\ StartedClean /\ hist.no_sentinel # {}

\* ---- C34 ----
\* the supervisor spawned for id in this run has written the sentinel that
\* lies in the run directory: it got as far as its write, and the status of
\* the sentinel is the outcome of its child
WrittenInThisRun(id) ==
    /\ id \in hist.spawned
    /\ sup[id].pc \in {"wrote", "exited", "dropped"}
    /\ sup[id].pc \in {"wrote", "exited"} => sup[id].rc \in {<<0>>, <<1>>, <<2>>}
    /\ run[id].done[1].task_id = id
    /\ run[id].done[1].status = "success" <=> hist.child[id] = "exited 0"

\* C34: a sentinel an earlier run left is never read as the outcome of a task
\* admitted in this run: the orchestrator deletes it in the step that flips
\* the task to in_progress, so from the admission on every sentinel in the
\* run directory of the task, and every sentinel the orchestrator classifies,
\* was written by the supervisor spawned for the task in this run.
C34_SentinelIsOfThisRun ==
    /\ [](\A id \in hist.admitted : run[id].done # <<>> => WrittenInThisRun(id))
    /\ [][\A id \in Ids :
            /\ Flipped(id) => run'[id].done = <<>>
            /\ (hist.outcome[id] = "" /\ hist'.outcome[id] # "" /\ run[id].done # <<>>)
                   => WrittenInThisRun(id)]_vars

\* a task is admitted over the run directory of an earlier run (worker.pid
\* and worker.log are there, no supervisor is spawned yet): the sentinel of
\* that run is gone
C34_Witness ==
    \E id \in hist.admitted \ hist.spawned :
        /\ run[id].pid /\ run[id].log > 0 /\ run[id].prompt
        /\ run[id].done = <<>>
        /\ Persisted(queue, id) = "in_progress"

\* a task was classified on the sentinel its supervisor wrote in this run
C34_WitnessClassified ==
    \E id \in hist.spawned :
        /\ hist.outcome[id] = "completed" /\ hist.seen_done[id]
        /\ run[id].done # <<>> /\ WrittenInThisRun(id)

====
